---------------------------- MODULE Spec2Model ----------------------------
(***************************************************************************)
(* NetScan: the public-address detector (services/public_ip.py) and the    *)
(* caching name resolver (services/resolution.py).                         *)
(*                                                                         *)
(* Conventions.  A Python str that the code only stores, compares and      *)
(* passes on is a TLA+ string.  Python None is the string "None" (no       *)
(* service, hostname or address of the model has that text).  The bytes of *)
(* an HTTP response are a sequence of symbols, each either the whitespace  *)
(* symbol WS or one address literal, so that decode().strip() is computed. *)
(***************************************************************************)
EXTENDS Integers, Sequences, FiniteSets, TLC

VARIABLES
    services,   \* PublicIPDetector._services: sequence of IPService records
    lastUsed,   \* PublicIPDetector._last_used_service
    dpc,        \* where the thread calling the detector is
    call,       \* the detector operation in progress or last completed
    probes,     \* the probes of the current detection call, in launch order
    errors,     \* the local dict `errors` of detect_public_ip
    si,         \* detect_public_ip_sync: index of the loop over _services
    cache,      \* DNSResolver._cache: the records, in the dict's insertion order
    enableCache,\* DNSResolver._enable_cache
    defaultTtl, \* DNSResolver._default_ttl
    now,        \* the clock read by time()
    rpc,        \* where the thread calling the resolver is
    rcall,      \* the resolver operation in progress or last completed
    tasks,      \* the resolve() executions of the current call
    results,    \* the local dict `results` of batch_resolve
    oids,       \* the identity of the object in each slot of _services
    defaults,   \* the IPService objects of the class attribute DEFAULT_SERVICES
    view,       \* the list get_available_services last returned to the caller
    obs,        \* the caller's last step: its argument, the registry before it
    ctor,       \* the arguments DNSResolver(...) was constructed with
    config,     \* "ip_services" in the _config of the detector's ConfigManager
    other,      \* the registry of a second PublicIPDetector, << >> before
                \* there is one
    lock,       \* the thread that holds DNSResolver._cache_lock
    thr,        \* per thread, where it is in the resolver method it runs
    reg         \* per thread, where it is in the registry method it runs

dvars == <<services, lastUsed, dpc, call, probes, errors, si>>

rvars == <<cache, enableCache, defaultTtl, now, rpc, rcall, tasks, results>>

hvars == <<oids, defaults, view, obs>>

cvars == <<ctor, config, other>>

lvars == <<lock, thr>>

tvars == <<reg>>

vars == <<dvars, rvars, hvars, cvars, lvars, tvars>>

\* Python's None
None == "None"

(***************************************************************************)
(* IPService and the registry                                              *)
(***************************************************************************)
DefaultTimeout == 10

IPService(n, u, t, e) == [name |-> n, url |-> u, timeout |-> t, enabled |-> e]

DEFAULT_SERVICES ==
    << IPService("ipify", "https://api.ipify.org", DefaultTimeout, TRUE),
       IPService("ipinfo", "https://ipinfo.io/ip", DefaultTimeout, TRUE),
       IPService("ifconfig", "https://ifconfig.me/ip", DefaultTimeout, TRUE),
       IPService("icanhazip", "https://icanhazip.com", DefaultTimeout, TRUE) >>

\* ConfigManager._defaults["ip_services"], in insertion order.  A fresh
\* ConfigManager() has an empty _config, so get("ip_services", {}) falls
\* through to the defaults.
ConfigIpServices ==
    [kind |-> "dict",
     items |->
       << [name |-> "ipify", isdict |-> TRUE,
           d |-> [url |-> "https://api.ipify.org", timeout |-> 10,
                  enabled |-> TRUE]],
          [name |-> "ipinfo", isdict |-> TRUE,
           d |-> [url |-> "https://ipinfo.io/ip", timeout |-> 10,
                  enabled |-> TRUE]],
          [name |-> "ifconfig", isdict |-> TRUE,
           d |-> [url |-> "https://ifconfig.me/ip", timeout |-> 10,
                  enabled |-> TRUE]] >>]

\* the detector's ConfigManager._config has no "ip_services" key
ConfigUnset == [kind |-> "unset", items |-> << >>]

\* dict.get(key, default)
DictGet(d, key, default) == IF key \in DOMAIN d THEN d[key] ELSE default

\* ConfigManager.get("ip_services", {}): the value in _config, the one in
\* _defaults when _config has none, and the default {} for a null
ConfigGet(cfg) ==
    LET value == IF cfg.kind = "unset" THEN ConfigIpServices ELSE cfg
    IN  IF value.kind = "null" THEN [kind |-> "dict", items |-> << >>]
        ELSE value

Names == {DEFAULT_SERVICES[i].name : i \in DOMAIN DEFAULT_SERVICES}

IndexOfName(svcs, n) ==
    IF \E i \in DOMAIN svcs : svcs[i].name = n
    THEN CHOOSE i \in DOMAIN svcs :
             /\ svcs[i].name = n
             /\ \A j \in DOMAIN svcs : svcs[j].name = n => i <= j
    ELSE 0

\* _update_service that takes the old entry out and puts the new one last
UpdateServiceMoveLast(svcs, s) ==
    Append(SelectSeq(svcs, LAMBDA x : x.name # s.name), s)

\* _update_service that puts an entry of a new name first
UpdateServicePrepend(svcs, s) ==
    LET i == IndexOfName(svcs, s.name)
    IN  IF i > 0 THEN [svcs EXCEPT ![i] = s] ELSE <<s>> \o svcs

\* the search of lines 86-89 left out: the service is always appended
UpdateServiceAppend(svcs, s) == Append(svcs, s)

\* _update_service: replace the first entry of that name in place, else append
UpdateService(svcs, s) ==
    LET i == IndexOfName(svcs, s.name)
    IN  IF i > 0 THEN [svcs EXCEPT ![i] = s] ELSE Append(svcs, s)

\* Python's class hierarchy of the exceptions involved: isinstance(e, cls)
IsInstance(e, cls) ==
    \/ e = cls
    \/ cls = "Exception"
    \/ e = "HTTPError" /\ cls = "URLError"

\* every entry taken for a dict
IsDictAlways(e) == TRUE

\* isinstance(config, dict), line 73
IsDict(e) == e.isdict

\* lines 74-79: the service an entry of the configuration describes
ServiceOf(e) ==
    IPService(e.name, DictGet(e.d, "url", ""), DictGet(e.d, "timeout", 10),
              DictGet(e.d, "enabled", TRUE))

\* the loop of lines 72-80
RECURSIVE MergeConfig(_, _)
MergeConfig(svcs, items) ==
    IF items = << >> THEN svcs
    ELSE MergeConfig(IF IsDict(Head(items))
                     THEN UpdateService(svcs, ServiceOf(Head(items)))
                     ELSE svcs,
                     Tail(items))

\* what line 72 raises: only a dict has .items()
ItemsRaises(value) == IF value.kind = "dict" THEN None ELSE "AttributeError"

\* except Exception, line 81
LoadCatches(exc) == IsInstance(exc, "Exception")

\* what _load_services_from_config lets out to its caller
LoadRaises(cfg) ==
    LET exc == ItemsRaises(ConfigGet(cfg))
    IN  IF exc = None \/ LoadCatches(exc) THEN None ELSE exc

\* _load_services_from_config
LoadServicesFromConfig(svcs, cfg) ==
    IF ItemsRaises(ConfigGet(cfg)) = None
    THEN MergeConfig(svcs, ConfigGet(cfg).items)
    ELSE svcs

\* list.pop() in place of list.pop(i)
PopLast(s, i) == SubSeq(s, 1, Len(s) - 1)

\* list.pop(i), del d[key]: the sequence without its i-th element
RemoveAt(s, i) == SubSeq(s, 1, i - 1) \o SubSeq(s, i + 1, Len(s))

(***************************************************************************)
(* Object identity.  An IPService is a mutable object and a list holds     *)
(* references: _services, the class attribute DEFAULT_SERVICES and a list  *)
(* returned to a caller may hold the same object.  `services` is the       *)
(* registry by value and `oids` names the object in each slot.  The        *)
(* objects of DEFAULT_SERVICES are 1..4; an object made later gets the     *)
(* least identity that no list refers to any more.                         *)
(***************************************************************************)
ClassOids == [i \in DOMAIN DEFAULT_SERVICES |-> i]

Range(f) == {f[i] : i \in DOMAIN f}

FreshOid(used) ==
    LET first == Len(DEFAULT_SERVICES) + 1
    IN  CHOOSE k \in first..(first + Cardinality(used)) :
            /\ k \notin used
            /\ \A j \in first..(k - 1) : j \in used

\* _update_service on the identities: IPService(...) made a new object,
\* which takes the slot of the first entry of that name, or the last place;
\* keep are the objects other lists refer to
UpdateOids(svcs, ids, name, keep) ==
    LET i == IndexOfName(svcs, name)
    IN  IF i > 0
        THEN [ids EXCEPT ![i] = FreshOid((Range(ids) \ {ids[i]}) \cup keep)]
        ELSE Append(ids, FreshOid(Range(ids) \cup keep))

RECURSIVE MergeConfigOids(_, _, _, _)
MergeConfigOids(svcs, ids, items, keep) ==
    IF items = << >> THEN ids
    ELSE IF IsDict(Head(items))
         THEN MergeConfigOids(UpdateService(svcs, ServiceOf(Head(items))),
                              UpdateOids(svcs, ids, Head(items).name, keep),
                              Tail(items), keep)
         ELSE MergeConfigOids(svcs, ids, Tail(items), keep)

\* _load_services_from_config, on the identities
LoadOidsFromConfig(svcs, ids, cfg, keep) ==
    IF ItemsRaises(ConfigGet(cfg)) = None
    THEN MergeConfigOids(svcs, ids, ConfigGet(cfg).items, keep)
    ELSE ids

\* the attribute set on every entry of the list
SetAttrAll(vals, ids, obj, field, value) ==
    [j \in DOMAIN vals |-> [vals[j] EXCEPT ![field] = value]]

\* obj.<field> = value, seen through a list of values vals whose slots hold
\* the objects ids
SetAttr(vals, ids, obj, field, value) ==
    [j \in DOMAIN vals |->
        IF ids[j] = obj THEN [vals[j] EXCEPT ![field] = value] ELSE vals[j]]

\* the filter of line 163 left out
AllServices(svcs) == svcs

\* [s for s in self._services if s.enabled]
EnabledServices(svcs) == SelectSeq(svcs, LAMBDA s : s.enabled)

NameSet(svcs) == {svcs[i].name : i \in DOMAIN svcs}


(***************************************************************************)
(* The HTTP endpoint and one probe of it                                   *)
(***************************************************************************)
WS == " "

\* the address a service reports; one per endpoint, so that the source of a
\* returned address can be told
AddrOf(url) ==
    CASE url = "https://api.ipify.org" -> "198.51.100.1"
      [] url = "https://ipinfo.io/ip" -> "198.51.100.2"
      [] url = "https://ifconfig.me/ip" -> "198.51.100.3"
      [] url = "https://icanhazip.com" -> "198.51.100.4"
      [] OTHER -> "198.51.100.9"

\* what response.read() can yield for a 2xx answer of the endpoint
RawBodies(url) ==
    { << >>, <<WS>>, <<AddrOf(url)>>, <<AddrOf(url), WS>>,
      <<WS, AddrOf(url), WS>> }

\* the exceptions urlopen/read raise in the model
ProbeExceptions == {"URLError", "HTTPError", "socket.timeout"}

\* every outcome of one urlopen(...) + read()
HttpOutcomes(url) ==
    {[kind |-> "body", raw |-> b, exc |-> None] : b \in RawBodies(url)}
    \cup {[kind |-> "raise", raw |-> << >>, exc |-> e] : e \in ProbeExceptions}

RECURSIVE LStrip(_)
LStrip(b) == IF b # << >> /\ Head(b) = WS THEN LStrip(Tail(b)) ELSE b

RECURSIVE RStrip(_)
RStrip(b) ==
    IF b # << >> /\ b[Len(b)] = WS THEN RStrip(SubSeq(b, 1, Len(b) - 1)) ELSE b

\* decode('utf-8') without strip(): the first symbol of the body
DecodeNoStrip(b) == IF b = << >> THEN "" ELSE b[1]

\* response.read().decode('utf-8').strip(): "" when nothing is left, else the
\* text (bodies of the model hold at most one non-blank symbol)
DecodeStrip(b) ==
    LET t == RStrip(LStrip(b)) IN IF t = << >> THEN "" ELSE t[1]

\* the except clauses of query_service, in source order, with the text each
\* one puts in the error it returns
ExceptClauses ==
    << [cls |-> "URLError", text |-> "URL error"],
       [cls |-> "HTTPError", text |-> "HTTP error"],
       [cls |-> "socket.timeout", text |-> "Timeout"],
       [cls |-> "Exception", text |-> "Unexpected error"] >>

\* the first except clause that matches wins
Classify(e) ==
    LET i == CHOOSE k \in DOMAIN ExceptClauses :
                 /\ IsInstance(e, ExceptClauses[k].cls)
                 /\ \A j \in 1..(k - 1) : ~IsInstance(e, ExceptClauses[j].cls)
    IN  ExceptClauses[i].text

\* query_service(service): the triple (service_name, ip, error)
QueryService(service, http) ==
    IF http.kind = "body"
    THEN [name |-> service.name, ip |-> DecodeStrip(http.raw), error |-> None]
    ELSE [name |-> service.name, ip |-> None, error |-> Classify(http.exc)]

\* `if ip is not None` in place of `if ip`
NotNone(ip) == ip # None

\* Python truth value of an Optional[str]: None and "" are false
Truthy(ip) == ip # None /\ ip # ""

\* line 215 moved out of the `if ip` of line 214
LastUsedAlways(last, r) == r.name

\* lines 214-215: self._last_used_service after the triple r was read
LastUsedAfter(last, r) == IF Truthy(r.ip) THEN r.name ELSE last

(***************************************************************************)
(* detect_public_ip: race mode                                             *)
(***************************************************************************)
DefaultMaxWorkers == 3

\* values of the max_workers argument explored
MaxWorkersArgs == {1, DefaultMaxWorkers}

NoArg == IPService(None, None, 0, FALSE)

\* the triple test_service returns
Triple(success, ip, error) == [success |-> success, ip |-> ip, error |-> error]

NoTriple == Triple(FALSE, None, None)

\* obs when the caller's last step was a detection, or it made none
NoObs == [op |-> "none", before |-> << >>, arg |-> NoArg, triple |-> NoTriple]

NoCall == [op |-> "none", enabled |-> {}, workers |-> 0, ret |-> None,
           raised |-> None, exit |-> "none"]

Queued(i) == probes[i].st = "queued"
Running(i) == probes[i].st = "running"
Completed(i) == probes[i].st \in {"finished", "yielded"}
Yielded(i) == probes[i].st = "yielded"

NewProbe(s, st) ==
    [name |-> s.name, url |-> s.url, st |-> st, ip |-> None, error |-> None,
     exc |-> None]

\* lines 160-210: the filter, the early return, and the submits
DetectPublicIp(mw) ==
    /\ dpc \in {"idle", "done"}
    /\ LET en == EnabledServices(services)
       IN  IF en = << >>
           THEN /\ dpc' = "done"
                /\ call' = [op |-> "detect_public_ip", enabled |-> {},
                            workers |-> mw, ret |-> None, raised |-> None,
                            exit |-> "no_enabled"]
                /\ probes' = << >>
           ELSE /\ dpc' = "as_completed"
                /\ call' = [op |-> "detect_public_ip", enabled |-> NameSet(en),
                            workers |-> mw, ret |-> None, raised |-> None,
                            exit |-> "none"]
                /\ probes' = [i \in DOMAIN en |-> NewProbe(en[i], "queued")]
    /\ errors' = << >>
    /\ UNCHANGED <<services, lastUsed, si>>
    /\ UNCHANGED rvars
    /\ UNCHANGED tvars
    /\ UNCHANGED lvars
    /\ UNCHANGED cvars
    /\ obs' = NoObs
    /\ UNCHANGED <<oids, defaults, view>>

InRace == call.op = "detect_public_ip" /\ dpc \in {"as_completed", "exit"}

\* a pool that starts a thread for every work item
WorkerAlwaysFree(running, max_workers) == TRUE

\* ThreadPoolExecutor(max_workers): a work item runs when one of the at most
\* max_workers threads of the pool is not running another
WorkerFree(running, max_workers) == running < max_workers

\* a pool worker takes the oldest queued work item (the executor's queue is
\* FIFO and the pool has at most max_workers threads)
ProbeStart(i) ==
    /\ InRace
    /\ i \in DOMAIN probes
    /\ Queued(i)
    /\ \A j \in 1..(i - 1) : ~Queued(j)
    /\ WorkerFree(Cardinality({j \in DOMAIN probes : Running(j)}),
                  call.workers)
    /\ probes' = [probes EXCEPT ![i].st = "running"]
    /\ UNCHANGED <<services, lastUsed, dpc, call, errors, si>>
    /\ UNCHANGED rvars
    /\ UNCHANGED tvars
    /\ UNCHANGED lvars
    /\ UNCHANGED cvars
    /\ UNCHANGED hvars

\* line 219 forgotten
RecordErrorSkipped(errs, name, error) == errs

\* line 219: errors[service_name] = error
RecordError(errs, name, error) ==
    [n \in (DOMAIN errs) \cup {name} |-> IF n = name THEN error ELSE errs[n]]

\* query_service returns in the worker and the future becomes done.  What
\* the HTTP exchange produced is drawn where the result is read (Yield): a
\* result that nobody reads decides nothing.
ProbeFinish(i) ==
    /\ InRace
    /\ i \in DOMAIN probes
    /\ Running(i)
    /\ probes' = [probes EXCEPT ![i].st = "finished"]
    /\ UNCHANGED <<services, lastUsed, dpc, call, errors, si>>
    /\ UNCHANGED rvars
    /\ UNCHANGED tvars
    /\ UNCHANGED lvars
    /\ UNCHANGED cvars
    /\ UNCHANGED hvars

\* lines 212-219: as_completed yields a finished future, future.result() is
\* the triple query_service returned, and the loop body runs.  as_completed
\* yields in completion order (and the futures it finds finished on entry in
\* the order of a set); completions of different workers with no yield
\* between them are concurrent, so every order of them is a schedule, and
\* the future yielded next is any finished one.
Yield(i, http) ==
    /\ dpc = "as_completed"
    /\ i \in DOMAIN probes
    /\ probes[i].st = "finished"
    /\ http \in HttpOutcomes(probes[i].url)
    /\ LET r == QueryService(probes[i], http)
       IN  /\ probes' = [probes EXCEPT ![i].st = "yielded",
                                       ![i].ip = r.ip, ![i].error = r.error,
                                       ![i].exc = http.exc]
           /\ lastUsed' = LastUsedAfter(lastUsed, r)
           /\ IF Truthy(r.ip)
              THEN /\ call' = [call EXCEPT !.ret = r.ip, !.exit = "winner"]
                   /\ dpc' = "exit"
                   /\ errors' = errors
              ELSE /\ errors' = RecordError(errors, r.name, r.error)
                   /\ UNCHANGED <<call, dpc>>
    /\ UNCHANGED <<services, si>>
    /\ UNCHANGED rvars
    /\ UNCHANGED tvars
    /\ UNCHANGED lvars
    /\ UNCHANGED cvars
    /\ UNCHANGED hvars

\* as_completed's deadline passes with futures still pending: it raises
\* TimeoutError, which nothing in detect_public_ip catches
AsCompletedTimeout ==
    /\ dpc = "as_completed"
    /\ \E i \in DOMAIN probes : ~Yielded(i)
    /\ call' = [call EXCEPT !.raised = "TimeoutError", !.exit = "timeout"]
    /\ dpc' = "exit"
    /\ UNCHANGED <<services, lastUsed, probes, errors, si>>
    /\ UNCHANGED rvars
    /\ UNCHANGED tvars
    /\ UNCHANGED lvars
    /\ UNCHANGED cvars
    /\ UNCHANGED hvars

\* as_completed is exhausted: line 222
AllFailed ==
    /\ dpc = "as_completed"
    /\ \A i \in DOMAIN probes : Yielded(i)
    /\ call' = [call EXCEPT !.ret = None, !.exit = "all_failed"]
    /\ dpc' = "exit"
    /\ UNCHANGED <<services, lastUsed, probes, errors, si>>
    /\ UNCHANGED rvars
    /\ UNCHANGED tvars
    /\ UNCHANGED lvars
    /\ UNCHANGED cvars
    /\ UNCHANGED hvars

\* leaving the `with ThreadPoolExecutor` block runs shutdown(wait=True): the
\* return (or the exception) reaches the caller once every work item is done
ExecutorExit ==
    /\ dpc = "exit"
    /\ InRace
    /\ \A i \in DOMAIN probes : Completed(i)
    /\ dpc' = "done"
    /\ UNCHANGED <<services, lastUsed, call, probes, errors, si>>
    /\ UNCHANGED rvars
    /\ UNCHANGED tvars
    /\ UNCHANGED lvars
    /\ UNCHANGED cvars
    /\ UNCHANGED hvars

(***************************************************************************)
(* detect_public_ip_sync: sequential mode                                  *)
(***************************************************************************)
\* the names bound when line 254 runs: the parameters and locals of
\* detect_public_ip_sync, and the module's globals (its imports and classes)
SyncScope ==
    {"self", "timeout", "service", "url", "request", "response", "ip"}
    \cup {"urllib", "socket", "threading", "List", "Optional", "Callable",
          "dataclass", "ThreadPoolExecutor", "as_completed", "get_logger",
          "ConfigManager", "IPService", "PublicIPDetector"}

\* line 254 is `self._last_used_service = service_name`: reading a name that
\* is not bound raises NameError
Line254Raises == IF "service_name" \in SyncScope THEN None ELSE "NameError"

\* the except clauses at lines 258 and 261; both `continue`
SyncCaught(e) ==
    \/ \E c \in {"URLError", "HTTPError", "socket.timeout"} : IsInstance(e, c)
    \/ IsInstance(e, "Exception")

DetectPublicIpSync ==
    /\ dpc \in {"idle", "done"}
    /\ dpc' = "sync"
    /\ call' = [op |-> "detect_public_ip_sync",
                enabled |-> NameSet(EnabledServices(services)),
                workers |-> 0, ret |-> None, raised |-> None, exit |-> "none"]
    /\ probes' = << >>
    /\ si' = 1
    /\ errors' = << >>
    /\ UNCHANGED <<services, lastUsed>>
    /\ UNCHANGED rvars
    /\ UNCHANGED tvars
    /\ UNCHANGED lvars
    /\ UNCHANGED cvars
    /\ obs' = NoObs
    /\ UNCHANGED <<oids, defaults, view>>

\* the loop is exhausted: lines 265-266
SyncExhausted ==
    /\ dpc = "sync"
    /\ si > Len(services)
    /\ call' = [call EXCEPT !.ret = None, !.exit = "exhausted"]
    /\ dpc' = "done"
    /\ UNCHANGED <<services, lastUsed, probes, errors, si>>
    /\ UNCHANGED rvars
    /\ UNCHANGED tvars
    /\ UNCHANGED lvars
    /\ UNCHANGED cvars
    /\ UNCHANGED hvars

\* lines 240-241
\* a loop that skips nothing
SkippedNever(service) == FALSE

\* line 240: `if not service.enabled`
Skipped(service) == ~service.enabled

SyncSkipDisabled ==
    /\ dpc = "sync"
    /\ si <= Len(services)
    /\ Skipped(services[si])
    /\ si' = si + 1
    /\ UNCHANGED <<services, lastUsed, dpc, call, probes, errors>>
    /\ UNCHANGED rvars
    /\ UNCHANGED tvars
    /\ UNCHANGED lvars
    /\ UNCHANGED cvars
    /\ UNCHANGED hvars

\* lines 243-263: one blocking probe of the next enabled service
SyncProbe(http) ==
    /\ dpc = "sync"
    /\ si <= Len(services)
    /\ ~Skipped(services[si])
    /\ http \in HttpOutcomes(services[si].url)
    /\ LET s == services[si]
           ip == IF http.kind = "body" THEN DecodeStrip(http.raw) ELSE None
           exc == IF http.kind = "raise" THEN http.exc ELSE Line254Raises
           rec == [NewProbe(s, "finished") EXCEPT
                      !.ip = ip,
                      !.error = IF http.kind = "raise" THEN Classify(http.exc)
                                ELSE None,
                      !.exc = http.exc]
       IN  /\ probes' = Append(probes, rec)
           /\ IF exc = None
              THEN /\ lastUsed' = s.name
                   /\ call' = [call EXCEPT !.ret = ip, !.exit = "winner"]
                   /\ dpc' = "done"
                   /\ si' = si
              ELSE IF SyncCaught(exc)
              THEN /\ si' = si + 1
                   /\ UNCHANGED <<lastUsed, call, dpc>>
              ELSE /\ call' = [call EXCEPT !.raised = exc, !.exit = "raised"]
                   /\ dpc' = "done"
                   /\ UNCHANGED <<lastUsed, si>>
    /\ UNCHANGED <<services, errors>>
    /\ UNCHANGED rvars
    /\ UNCHANGED tvars
    /\ UNCHANGED lvars
    /\ UNCHANGED cvars
    /\ UNCHANGED hvars

(***************************************************************************)
(* Registry operations                                                     *)
(***************************************************************************)
ViewOids == {view[j].oid : j \in DOMAIN view}

OtherOids == {other[j].oid : j \in DOMAIN other}

\* the objects that lists outside this registry refer to
HeldOids == ViewOids \cup OtherOids

\* a registry method called between detections: what it was given, what it
\* returned, and the registry it found
RegistryCallRaising(op, ret, arg, raised) ==
    /\ dpc \in {"idle", "done"}
    /\ dpc' = "done"
    /\ call' = [op |-> op, enabled |-> {}, workers |-> 0, ret |-> ret,
                raised |-> raised,
                exit |-> IF raised = None THEN "returned" ELSE "raised"]
    /\ obs' = [op |-> op, before |-> services, arg |-> arg,
               triple |-> NoTriple]
    /\ probes' = << >>
    /\ errors' = << >>
    /\ UNCHANGED <<lastUsed, si>>
    /\ UNCHANGED rvars
    /\ UNCHANGED tvars
    /\ UNCHANGED lvars
    /\ UNCHANGED <<ctor, config>>

RegistryCall(op, ret, arg) == RegistryCallRaising(op, ret, arg, None)

\* add_service(name, url, timeout, enabled)
AddService(s) ==
    /\ services' = UpdateService(services, s)
    /\ oids' = UpdateOids(services, oids, s.name, HeldOids)
    /\ UNCHANGED <<defaults, view, other>>
    /\ RegistryCall("add_service", None, s)

RemoveService(n) ==
    LET i == IndexOfName(services, n)
    IN  /\ services' = IF i > 0 THEN RemoveAt(services, i) ELSE services
        /\ oids' = IF i > 0 THEN RemoveAt(oids, i) ELSE oids
        /\ UNCHANGED <<defaults, view, other>>
        /\ RegistryCall("remove_service", i > 0,
                        IPService(n, None, 0, FALSE))

\* the entry whose flag is set when no entry has that name
NoObject == 0

\* _set_service_enabled: the object of the first entry of that name gets the
\* flag, wherever else that object is referred to
SetServiceEnabled(n, enabled) ==
    LET i == IndexOfName(services, n)
        obj == IF i > 0 THEN oids[i] ELSE NoObject
    IN  /\ services' = SetAttr(services, oids, obj, "enabled", enabled)
        /\ defaults' = SetAttr(defaults, ClassOids, obj, "enabled", enabled)
        /\ view' = [j \in DOMAIN view |->
                       IF view[j].oid = obj
                       THEN [view[j] EXCEPT !.val.enabled = enabled]
                       ELSE view[j]]
        /\ other' = [j \in DOMAIN other |->
                        IF other[j].oid = obj
                        THEN [other[j] EXCEPT !.val.enabled = enabled]
                        ELSE other[j]]
        /\ oids' = oids
        /\ RegistryCall(IF enabled THEN "enable_service" ELSE "disable_service",
                        i > 0, IPService(n, None, 0, enabled))

EnableService(n) == SetServiceEnabled(n, TRUE)

DisableService(n) == SetServiceEnabled(n, FALSE)

\* refresh_services: a new list of the objects of DEFAULT_SERVICES, as they
\* are now, with the configuration merged in
RefreshServices ==
    /\ services' = LoadServicesFromConfig(defaults, config)
    /\ oids' = LoadOidsFromConfig(defaults, ClassOids, config, HeldOids)
    /\ UNCHANGED <<defaults, view, other>>
    /\ RegistryCallRaising("refresh_services", FALSE, NoArg, LoadRaises(config))

\* get_available_services: the caller gets self._services.copy()
GetAvailableServices ==
    /\ view' = [i \in DOMAIN services |->
                   [oid |-> oids[i], val |-> services[i]]]
    /\ UNCHANGED <<services, oids, defaults, other>>
    /\ RegistryCall("get_available_services", None, NoArg)

\* service_configs[service.name] = {...}, line 300: a name the dict has
\* keeps its place and gets the new value
DictSet(items, e) ==
    IF \E i \in DOMAIN items : items[i].name = e.name
    THEN [i \in DOMAIN items |-> IF items[i].name = e.name THEN e ELSE items[i]]
    ELSE Append(items, e)

\* the loop of lines 299-304
RECURSIVE ServiceConfigs(_, _)
ServiceConfigs(items, svcs) ==
    IF svcs = << >> THEN items
    ELSE ServiceConfigs(
             DictSet(items, [name |-> Head(svcs).name, isdict |-> TRUE,
                             d |-> [url |-> Head(svcs).url,
                                    timeout |-> Head(svcs).timeout,
                                    enabled |-> Head(svcs).enabled]]),
             Tail(svcs))

\* save_services_to_config
SaveServicesToConfig ==
    /\ dpc \in {"idle", "done"}
    /\ dpc' = "done"
    /\ config' = [kind |-> "dict", items |-> ServiceConfigs(<< >>, services)]
    /\ call' = [op |-> "save_services_to_config", enabled |-> {},
                workers |-> 0, ret |-> None, raised |-> None,
                exit |-> "returned"]
    /\ obs' = [op |-> "save_services_to_config", before |-> services,
               arg |-> NoArg, triple |-> NoTriple]
    /\ probes' = << >>
    /\ errors' = << >>
    /\ UNCHANGED <<services, oids, defaults, view, lastUsed, si, ctor, other>>
    /\ UNCHANGED rvars
    /\ UNCHANGED tvars
    /\ UNCHANGED lvars

\* values of "ip_services" a configuration holds: not a dict, null, and
\* dicts whose entries lack fields or are not dicts themselves
ConfigValues ==
    { [kind |-> "list", items |-> << >>],
      [kind |-> "null", items |-> << >>],
      [kind |-> "dict", items |-> << >>],
      [kind |-> "dict",
       items |-> << [name |-> "ipify", isdict |-> TRUE,
                     d |-> [enabled |-> FALSE]],
                    [name |-> "broken", isdict |-> FALSE,
                     d |-> [k \in {} |-> None]],
                    [name |-> "custom", isdict |-> TRUE,
                     d |-> [url |-> "https://203.0.113.7/ip"]] >>],
      [kind |-> "dict",
       items |-> << [name |-> "icanhazip", isdict |-> FALSE,
                     d |-> [k \in {} |-> None]],
                    [name |-> "custom", isdict |-> TRUE,
                     d |-> [url |-> "https://203.0.113.7/ip", timeout |-> 5,
                            enabled |-> FALSE]] >>] }

\* the detector's ConfigManager gets a value for "ip_services":
\* set("ip_services", v), or load of a file that holds it
ConfigSet(v) ==
    /\ dpc \in {"idle", "done"}
    /\ config' = v
    /\ obs' = [op |-> "config.set", before |-> services, arg |-> NoArg,
               triple |-> NoTriple]
    /\ UNCHANGED <<services, oids, defaults, view, ctor, other>>
    /\ UNCHANGED <<lastUsed, dpc, call, probes, errors, si>>
    /\ UNCHANGED rvars
    /\ UNCHANGED tvars
    /\ UNCHANGED lvars

\* PublicIPDetector(): a second detector is constructed.  Its registry is a
\* new list of the objects of DEFAULT_SERVICES with the configuration of a
\* new ConfigManager merged in
ConstructOther ==
    /\ dpc \in {"idle", "done"}
    /\ LET vals == LoadServicesFromConfig(defaults, ConfigUnset)
           ids == LoadOidsFromConfig(defaults, ClassOids, ConfigUnset,
                                     Range(oids) \cup ViewOids)
       IN  other' = [i \in DOMAIN vals |-> [oid |-> ids[i], val |-> vals[i]]]
    /\ obs' = [op |-> "PublicIPDetector()", before |-> services,
               arg |-> NoArg, triple |-> NoTriple]
    /\ UNCHANGED <<services, oids, defaults, view, ctor, config>>
    /\ UNCHANGED <<lastUsed, dpc, call, probes, errors, si>>
    /\ UNCHANGED rvars
    /\ UNCHANGED tvars
    /\ UNCHANGED lvars

\* values a caller writes into an entry of the list it was given
CallerWrites == [enabled |-> FALSE, url |-> "https://198.51.100.66/ip"]

\* the caller of get_available_services assigns to an attribute of an entry
\* of the returned list: entry.<field> = value
CallerSetsAttr(j, field) ==
    /\ dpc \in {"idle", "done"}
    /\ j \in DOMAIN view
    /\ field \in DOMAIN CallerWrites
    /\ view[j].val[field] # CallerWrites[field]
    /\ LET obj == view[j].oid
       IN  /\ services' = SetAttr(services, oids, obj, field, CallerWrites[field])
           /\ defaults' = SetAttr(defaults, ClassOids, obj, field, CallerWrites[field])
           /\ view' = [k \in DOMAIN view |->
                          IF view[k].oid = obj
                          THEN [view[k] EXCEPT !.val[field] = CallerWrites[field]]
                          ELSE view[k]]
           /\ other' = [k \in DOMAIN other |->
                           IF other[k].oid = obj
                           THEN [other[k] EXCEPT
                                    !.val[field] = CallerWrites[field]]
                           ELSE other[k]]
    /\ obs' = [op |-> "entry.setattr", before |-> services, arg |-> NoArg,
               triple |-> NoTriple]
    /\ oids' = oids
    /\ UNCHANGED <<lastUsed, dpc, call, probes, errors, si>>
    /\ UNCHANGED rvars
    /\ UNCHANGED tvars
    /\ UNCHANGED lvars
    /\ UNCHANGED <<ctor, config>>

\* the caller lets go of the returned list
CallerDropsList ==
    /\ dpc \in {"idle", "done"}
    /\ view # << >>
    /\ view' = << >>
    /\ obs' = [op |-> "del list", before |-> services, arg |-> NoArg,
               triple |-> NoTriple]
    /\ UNCHANGED <<services, oids, defaults>>
    /\ UNCHANGED <<lastUsed, dpc, call, probes, errors, si>>
    /\ UNCHANGED rvars
    /\ UNCHANGED tvars
    /\ UNCHANGED lvars
    /\ UNCHANGED cvars

\* the caller removes the last element of the returned list: returned.pop()
CallerPops ==
    /\ dpc \in {"idle", "done"}
    /\ view # << >>
    /\ view' = SubSeq(view, 1, Len(view) - 1)
    /\ obs' = [op |-> "list.pop", before |-> services, arg |-> NoArg,
               triple |-> NoTriple]
    /\ UNCHANGED <<services, oids, defaults>>
    /\ UNCHANGED <<lastUsed, dpc, call, probes, errors, si>>
    /\ UNCHANGED rvars
    /\ UNCHANGED tvars
    /\ UNCHANGED lvars
    /\ UNCHANGED cvars

\* the names test_service can read: its parameters and locals, and the
\* names bound in the module
TestScope ==
    {"self", "name", "service"}
    \cup {"urllib", "socket", "threading", "List", "Optional", "Callable",
          "dataclass", "ThreadPoolExecutor", "as_completed", "get_logger",
          "ConfigManager", "IPService", "PublicIPDetector"}

\* line 284 calls query_service, a function local to detect_public_ip:
\* reading a name that is not bound raises NameError
Line284Raises == IF "query_service" \in TestScope THEN None ELSE "NameError"

\* test_service(name): lines 282-288
TestService(n) ==
    /\ dpc \in {"idle", "done"}
    /\ dpc' = "done"
    /\ errors' = << >>
    /\ LET i == IndexOfName(services, n)
           returns(t) ==
               /\ call' = [op |-> "test_service", enabled |-> {}, workers |-> 0,
                           ret |-> None, raised |-> None, exit |-> "returned"]
               /\ obs' = [op |-> "test_service", before |-> services,
                          arg |-> IPService(n, None, 0, FALSE), triple |-> t]
       IN  IF i = 0
           THEN /\ returns(Triple(FALSE, None, "Service not found"))
                /\ probes' = << >>
           ELSE IF Line284Raises # None
           THEN /\ call' = [op |-> "test_service", enabled |-> {},
                            workers |-> 0, ret |-> None,
                            raised |-> Line284Raises, exit |-> "raised"]
                /\ obs' = [op |-> "test_service", before |-> services,
                           arg |-> IPService(n, None, 0, FALSE),
                           triple |-> NoTriple]
                /\ probes' = << >>
           ELSE \E http \in HttpOutcomes(services[i].url) :
                   LET r == QueryService(services[i], http)
                   IN  /\ returns(Triple(r.ip # None, r.ip, r.error))
                       /\ probes' = << [NewProbe(services[i], "yielded") EXCEPT
                                           !.ip = r.ip, !.error = r.error] >>
    /\ UNCHANGED <<services, lastUsed, si>>
    /\ UNCHANGED <<oids, defaults, view>>
    /\ UNCHANGED rvars
    /\ UNCHANGED tvars
    /\ UNCHANGED lvars
    /\ UNCHANGED cvars

(***************************************************************************)
(* DNSResolver: configuration, clock, cache                                *)
(***************************************************************************)
DefaultTTL == 300

\* ConfigManager._defaults["dns_resolver"]; a fresh ConfigManager() has an
\* empty _config, so get("dns_resolver", {}) falls through to the defaults
ConfigDnsResolver == [enable_cache |-> TRUE, default_ttl |-> DefaultTTL]

\* the last instant of the clock that is explored
MaxTime == 3

\* values of set_cache_ttl's argument explored
TtlArgs == {1, DefaultTTL}

Hostnames == {"a.test", "b.test"}

Families == {"AF_UNSPEC", "AF_INET", "AF_INET6"}

\* `is_expired` with >= in place of >
IsExpiredAtTtl(timestamp, ttl, t) == (t - timestamp) >= ttl

\* DNSRecord.is_expired(ttl), time() being t
IsExpired(timestamp, ttl, t) == (t - timestamp) > ttl

\* DNSRecord(hostname, ip_address, aliases, record_type="A", timestamp); the
\* aliases are stored and never read, and are left out
DNSRecord(h, ip, t) ==
    [hostname |-> h, ip_address |-> ip, record_type |-> "A", timestamp |-> t]

CacheIndex(c, h) ==
    IF \E i \in DOMAIN c : c[i].hostname = h
    THEN CHOOSE i \in DOMAIN c : c[i].hostname = h
    ELSE 0

\* self._cache.setdefault(hostname, record): the record already there stays
CachePutFirstWins(c, rec) ==
    IF CacheIndex(c, rec.hostname) > 0 THEN c ELSE Append(c, rec)

\* self._cache[hostname] = record: a new key goes last, a key already in the
\* dict keeps its place
CachePut(c, rec) ==
    LET i == CacheIndex(c, rec.hostname)
    IN  IF i > 0 THEN [c EXCEPT ![i] = rec] ELSE Append(c, rec)

\* the `elif record` branch of _get_from_cache without its del
CacheKeep(c, h) == c

\* del self._cache[hostname]
CacheDel(c, h) ==
    LET i == CacheIndex(c, h) IN IF i > 0 THEN RemoveAt(c, i) ELSE c

\* record.is_expired() called without its argument
ExpiryTtlDefault(ttl) == DefaultTTL

\* line 239 hands self._default_ttl, as it is at that moment, to is_expired
ExpiryTtl(ttl) == ttl

\* _get_from_cache, under the lock: the record when it is live (else None),
\* and the cache afterwards (an expired record is deleted)
GetFromCache(c, h, enabled, ttl, t) ==
    LET i == CacheIndex(c, h)
    IN  IF ~enabled THEN [found |-> FALSE, ip |-> None, cache |-> c]
        ELSE IF i > 0 /\ ~IsExpired(c[i].timestamp, ttl, t)
        THEN [found |-> TRUE, ip |-> c[i].ip_address, cache |-> c]
        ELSE IF i > 0
        THEN [found |-> FALSE, ip |-> None, cache |-> CacheDel(c, h)]
        ELSE [found |-> FALSE, ip |-> None, cache |-> c]

\* _store_in_cache, under the lock
StoreInCache(c, h, ip, enabled, t) ==
    IF ~enabled THEN c ELSE CachePut(c, DNSRecord(h, ip, t))

\* a clear() that drops one record only
ClearedOne(c) == IF c = << >> THEN c ELSE Tail(c)

\* self._cache.clear()
Cleared(c) == << >>

\* the dict get_cache_stats returns
CacheStats(c, enabled, ttl) ==
    [size |-> Len(c), enabled |-> enabled, default_ttl |-> ttl,
     hostnames |-> [i \in DOMAIN c |-> c[i].hostname]]

(***************************************************************************)
(* The lookup primitive, socket.getaddrinfo                                *)
(***************************************************************************)
V4(h) == IF h = "a.test" THEN "192.0.2.1" ELSE "192.0.2.2"

V6(h) == IF h = "a.test" THEN "2001:db8::1" ELSE "2001:db8::2"

Item(fam, addr) == [family |-> fam, addr |-> addr]

\* the address lists the name servers may hand out for h, before the family
\* filter: nothing, one address, two, and one with a repetition
DnsLists(h) ==
    { << >>,
      << Item("AF_INET", V4(h)) >>,
      << Item("AF_INET6", V6(h)), Item("AF_INET", V4(h)) >>,
      << Item("AF_INET", V4(h)), Item("AF_INET", V4(h)),
         Item("AF_INET6", V6(h)) >> }

FamilyFilter(info, fam) ==
    SelectSeq(info, LAMBDA it : fam = "AF_UNSPEC" \/ it.family = fam)

LookupExceptions == {"gaierror", "UnicodeError"}

\* every outcome of one getaddrinfo(hostname, None, family=fam, ...)
Getaddrinfo(h, fam) ==
    {[kind |-> "info", info |-> FamilyFilter(l, fam), exc |-> None] :
        l \in DnsLists(h)}
    \cup {[kind |-> "raise", info |-> << >>, exc |-> e] : e \in LookupExceptions}

\* [item[4][0] for item in info]
IpAddresses(info) == [i \in DOMAIN info |-> info[i].addr]

\* "" where line 101 has None
FirstOrEmpty(ips) == IF ips # << >> THEN ips[1] ELSE ""

\* ip_addresses[0] if ip_addresses else None
FirstOrNone(ips) == IF ips # << >> THEN ips[1] ELSE None

\* the loop of lines 159-163 without its test
NoDedup(ips) == ips

RECURSIVE Dedup(_)
\* lines 159-163: every address once, in the order of first occurrence
Dedup(ips) ==
    IF ips = << >> THEN << >>
    ELSE LET front == Dedup(SubSeq(ips, 1, Len(ips) - 1))
             x == ips[Len(ips)]
         IN  IF \E i \in DOMAIN front : front[i] = x THEN front
             ELSE Append(front, x)

\* only `except socket.gaierror`, the `except Exception` clause missing
CaughtGaierrorOnly(e) == e = "gaierror"

\* the except clauses of resolve and resolve_all: socket.gaierror, Exception
ResolveCaught(e) == e = "gaierror" \/ IsInstance(e, "Exception")

(***************************************************************************)
(* DNSResolver: calls.  A call of resolve or resolve_all is a task; the    *)
(* caller's thread runs the one task of a direct call, the workers of the  *)
(* executor run the tasks of batch_resolve.                                *)
(***************************************************************************)
DefaultBatchWorkers == 5

BatchWorkersArgs == {1, DefaultBatchWorkers}

\* the hostname lists handed to batch_resolve
BatchInputs ==
    { << >>, <<"b.test", "a.test">>, <<"a.test", "a.test", "b.test">> }

NoStats == [size |-> -1, enabled |-> FALSE, default_ttl |-> -1,
            hostnames |-> << >>]

\* the call in progress or last made: its arguments and what it returned.
\* prev names the call before it, dropped the number of records a
\* clear_cache removed, cacheAt the cache the call found, prevList the list
\* the call before it returned, arg the argument of set_cache_ttl
ResolverCall(op, hosts, fam, mw) ==
    [op |-> op, prev |-> rcall.op, hosts |-> hosts, family |-> fam,
     workers |-> mw, ret |-> None, list |-> << >>, raised |-> None,
     stats |-> NoStats, dropped |-> 0, cacheAt |-> cache,
     prevList |-> rcall.list, arg |-> 0]

NoResolverCall ==
    [op |-> "none", prev |-> "none", hosts |-> << >>, family |-> "AF_UNSPEC",
     workers |-> 0, ret |-> None, list |-> << >>, raised |-> None,
     stats |-> NoStats, dropped |-> 0, cacheAt |-> << >>,
     prevList |-> << >>, arg |-> 0]

\* one run of resolve (op "resolve") or resolve_all (op "resolve_all"): where
\* it is, what it returned or raised, and what it saw: the age and address
\* of the record it found in the cache (age -1: none), the TTL it compared
\* the age with, the number of getaddrinfo calls it made and the addresses
\* getaddrinfo reported
NewTask(op, h) ==
    [op |-> op, host |-> h, pc |-> "queued", ret |-> None, list |-> << >>,
     exc |-> None, how |-> "none", age |-> -1, ttl |-> -1,
     cachedIp |-> None, lookups |-> 0, reported |-> << >>]

\* a hit that returns the empty list
HitListEmpty(ip) == << >>

\* line 149: return [cached.ip_address]
HitList(ip) == <<ip>>

TaskFinished(t) == tasks[t].pc \in {"done", "yielded"}

TaskRunning(t) == tasks[t].pc = "lookup"

ResolverIdle == rpc \in {"idle", "done"}

\* resolve(hostname, family), called directly
ResolveCall(h, fam) ==
    /\ ResolverIdle
    /\ rpc' = "resolve"
    /\ rcall' = ResolverCall("resolve", <<h>>, fam, 1)
    /\ tasks' = << NewTask("resolve", h) >>
    /\ results' = << >>
    /\ UNCHANGED <<cache, enableCache, defaultTtl, now>>
    /\ UNCHANGED dvars
    /\ UNCHANGED tvars
    /\ UNCHANGED lvars
    /\ UNCHANGED cvars
    /\ UNCHANGED hvars

\* resolve_all(hostname, family)
ResolveAllCall(h, fam) ==
    /\ ResolverIdle
    /\ rpc' = "resolve"
    /\ rcall' = ResolverCall("resolve_all", <<h>>, fam, 1)
    /\ tasks' = << NewTask("resolve_all", h) >>
    /\ results' = << >>
    /\ UNCHANGED <<cache, enableCache, defaultTtl, now>>
    /\ UNCHANGED dvars
    /\ UNCHANGED tvars
    /\ UNCHANGED lvars
    /\ UNCHANGED cvars
    /\ UNCHANGED hvars

\* a cache that answers only calls made without a family hint
CachedUnspecOnly(g, fam) == g.found /\ fam = "AF_UNSPEC"

\* lines 82-83 and 146-147: cached = self._get_from_cache(hostname);
\* `if cached:`.  The family the call was made with is not looked at
Cached(g, fam) == g.found

\* lines 82-86 and 146-149: a task starts (the executor hands its work items
\* out first in, first out, to at most max_workers threads) and looks in
\* the cache; on a hit it returns the cached address
TaskCheck(t) ==
    /\ rpc \in {"resolve", "batch"}
    /\ t \in DOMAIN tasks
    /\ tasks[t].pc = "queued"
    /\ \A j \in 1..(t - 1) : tasks[j].pc # "queued"
    /\ Cardinality({j \in DOMAIN tasks : TaskRunning(j)}) < rcall.workers
    /\ LET h == tasks[t].host
           i == CacheIndex(cache, h)
           g == GetFromCache(cache, h, enableCache, ExpiryTtl(defaultTtl), now)
           seen == [tasks[t] EXCEPT
                       !.age = IF i > 0 THEN now - cache[i].timestamp ELSE -1,
                       !.cachedIp = IF i > 0 THEN cache[i].ip_address ELSE None,
                       !.ttl = defaultTtl]
       IN  /\ cache' = g.cache
           /\ tasks' = [tasks EXCEPT ![t] =
                 IF Cached(g, rcall.family)
                 THEN [seen EXCEPT !.pc = "done", !.how = "hit", !.ret = g.ip,
                                   !.list = HitList(g.ip)]
                 ELSE [seen EXCEPT !.pc = "lookup"]]
    /\ UNCHANGED <<enableCache, defaultTtl, now, rpc, rcall, results>>
    /\ UNCHANGED dvars
    /\ UNCHANGED tvars
    /\ UNCHANGED lvars
    /\ UNCHANGED cvars
    /\ UNCHANGED hvars

\* lines 88-115 and 151-177: getaddrinfo answers or raises; the first
\* address is stored and the address (resolve) or the list (resolve_all) is
\* returned; an exception the except clauses catch makes None or []
TaskLookup(t, out) ==
    /\ rpc \in {"resolve", "batch"}
    /\ t \in DOMAIN tasks
    /\ tasks[t].pc = "lookup"
    /\ out \in Getaddrinfo(tasks[t].host, rcall.family)
    /\ LET h == tasks[t].host
           ips == IF tasks[t].op = "resolve" THEN IpAddresses(out.info)
                  ELSE Dedup(IpAddresses(out.info))
           ip == FirstOrNone(ips)
           looked == [tasks[t] EXCEPT !.pc = "done", !.lookups = @ + 1,
                                      !.reported = IpAddresses(out.info)]
       IN  IF out.kind = "info"
           THEN /\ cache' = IF Truthy(ip) /\ enableCache
                            THEN StoreInCache(cache, h, ip, enableCache, now)
                            ELSE cache
                /\ tasks' = [tasks EXCEPT ![t] =
                      [looked EXCEPT !.ret = ip, !.list = ips,
                          !.how = IF ips # << >> THEN "found" ELSE "empty"]]
           ELSE /\ cache' = cache
                /\ tasks' = [tasks EXCEPT ![t] =
                      IF ResolveCaught(out.exc)
                      THEN [looked EXCEPT !.how = out.exc]
                      ELSE [looked EXCEPT !.how = out.exc, !.exc = out.exc]]
    /\ UNCHANGED <<enableCache, defaultTtl, now, rpc, rcall, results>>
    /\ UNCHANGED dvars
    /\ UNCHANGED tvars
    /\ UNCHANGED lvars
    /\ UNCHANGED cvars
    /\ UNCHANGED hvars

\* the addresses reverse_resolve is called with
ReverseArgs == {V4("a.test"), "203.0.113.99"}

\* the name the reverse zone has for an address
PtrName(ip) == IF ip = V4("a.test") THEN "a.test" ELSE "host.example"

ReverseExceptions == {"herror", "gaierror"}

\* every outcome of one socket.gethostbyaddr(ip_address)
Gethostbyaddr(ip) ==
    {[kind |-> "name", name |-> PtrName(ip), exc |-> None]}
    \cup {[kind |-> "raise", name |-> None, exc |-> e] : e \in ReverseExceptions}

\* only `except socket.herror`, the `except Exception` clause missing
CaughtHerrorOnly(e) == e = "herror"

\* the except clauses of reverse_resolve: socket.herror, Exception
ReverseCaught(e) == e = "herror" \/ IsInstance(e, "Exception")

\* reverse_resolve(ip_address): lines 189-198; the task records the one call
\* of gethostbyaddr
ReverseResolve(ip, out) ==
    /\ ResolverIdle
    /\ out \in Gethostbyaddr(ip)
    /\ rpc' = "done"
    /\ LET raised == IF out.kind = "raise" /\ ~ReverseCaught(out.exc)
                     THEN out.exc ELSE None
           ret == IF out.kind = "name" THEN out.name ELSE None
       IN  /\ rcall' = [ResolverCall("reverse_resolve", <<ip>>, "AF_UNSPEC", 1)
                           EXCEPT !.ret = ret, !.raised = raised]
           /\ tasks' = << [NewTask("reverse_resolve", ip) EXCEPT
                              !.pc = "done", !.lookups = 1, !.ret = ret,
                              !.exc = raised,
                              !.how = IF out.kind = "name" THEN "found"
                                      ELSE out.exc] >>
    /\ results' = << >>
    /\ UNCHANGED <<cache, enableCache, defaultTtl, now>>
    /\ UNCHANGED dvars
    /\ UNCHANGED tvars
    /\ UNCHANGED lvars
    /\ UNCHANGED cvars
    /\ UNCHANGED hvars

\* the direct call returns to its caller
ResolveReturn ==
    /\ rpc = "resolve"
    /\ tasks[1].pc = "done"
    /\ rpc' = "done"
    /\ rcall' = [rcall EXCEPT !.ret = tasks[1].ret, !.list = tasks[1].list,
                              !.raised = tasks[1].exc]
    /\ UNCHANGED <<cache, enableCache, defaultTtl, now, tasks, results>>
    /\ UNCHANGED dvars
    /\ UNCHANGED tvars
    /\ UNCHANGED lvars
    /\ UNCHANGED cvars
    /\ UNCHANGED hvars

\* `if ip: results[hostname] = ip` in place of line 227
StoreResultIfFound(res, h, ip) ==
    IF ip = None THEN res
    ELSE [x \in (DOMAIN res) \cup {h} |-> IF x = h THEN ip ELSE res[x]]

\* line 227: results[hostname] = ip
StoreResult(res, h, ip) ==
    [x \in (DOMAIN res) \cup {h} |-> IF x = h THEN ip ELSE res[x]]

\* lines 213-223: batch_resolve submits one resolve_single per element of
\* hostnames
BatchResolve(hs, fam, mw) ==
    /\ ResolverIdle
    /\ rpc' = "batch"
    /\ rcall' = ResolverCall("batch_resolve", hs, fam, mw)
    /\ tasks' = [i \in DOMAIN hs |-> NewTask("resolve", hs[i])]
    /\ results' = << >>
    /\ UNCHANGED <<cache, enableCache, defaultTtl, now>>
    /\ UNCHANGED dvars
    /\ UNCHANGED tvars
    /\ UNCHANGED lvars
    /\ UNCHANGED cvars
    /\ UNCHANGED hvars

\* lines 225-227: as_completed (no timeout) yields a finished future;
\* future.result() is the pair resolve_single returned, or raises what
\* resolve raised
BatchYield(t) ==
    /\ rpc = "batch"
    /\ rcall.raised = None
    /\ t \in DOMAIN tasks
    /\ tasks[t].pc = "done"
    /\ tasks' = [tasks EXCEPT ![t].pc = "yielded"]
    /\ IF tasks[t].exc = None
       THEN /\ results' = StoreResult(results, tasks[t].host, tasks[t].ret)
            /\ rcall' = rcall
       ELSE /\ results' = results
            /\ rcall' = [rcall EXCEPT !.raised = tasks[t].exc]
    /\ UNCHANGED <<cache, enableCache, defaultTtl, now, rpc>>
    /\ UNCHANGED dvars
    /\ UNCHANGED tvars
    /\ UNCHANGED lvars
    /\ UNCHANGED cvars
    /\ UNCHANGED hvars

\* lines 229-230: the loop is over and the `with` block is left, which
\* waits for every work item; results is returned (or the exception of
\* future.result() goes on to the caller)
BatchReturn ==
    /\ rpc = "batch"
    /\ IF rcall.raised = None
       THEN \A t \in DOMAIN tasks : tasks[t].pc = "yielded"
       ELSE \A t \in DOMAIN tasks : TaskFinished(t)
    /\ rpc' = "done"
    /\ UNCHANGED <<cache, enableCache, defaultTtl, now, rcall, tasks, results>>
    /\ UNCHANGED dvars
    /\ UNCHANGED tvars
    /\ UNCHANGED lvars
    /\ UNCHANGED cvars
    /\ UNCHANGED hvars

\* clear_cache()
ClearCache ==
    /\ ResolverIdle
    /\ rpc' = "done"
    /\ rcall' = [ResolverCall("clear_cache", << >>, "AF_UNSPEC", 0)
                    EXCEPT !.dropped = Len(cache)]
    /\ cache' = Cleared(cache)
    /\ tasks' = << >>
    /\ results' = << >>
    /\ UNCHANGED <<enableCache, defaultTtl, now>>
    /\ UNCHANGED dvars
    /\ UNCHANGED tvars
    /\ UNCHANGED lvars
    /\ UNCHANGED cvars
    /\ UNCHANGED hvars

\* get_cache_stats()
GetCacheStats ==
    /\ ResolverIdle
    /\ rpc' = "done"
    /\ rcall' = [ResolverCall("get_cache_stats", << >>, "AF_UNSPEC", 0)
                    EXCEPT !.stats = CacheStats(cache, enableCache, defaultTtl),
                           !.dropped = IF rcall.op = "clear_cache"
                                       THEN rcall.dropped ELSE 0]
    /\ tasks' = << >>
    /\ results' = << >>
    /\ UNCHANGED <<cache, enableCache, defaultTtl, now>>
    /\ UNCHANGED dvars
    /\ UNCHANGED tvars
    /\ UNCHANGED lvars
    /\ UNCHANGED cvars
    /\ UNCHANGED hvars

\* set_cache_ttl(ttl)
SetCacheTtl(ttl) ==
    /\ ResolverIdle
    /\ ttl # defaultTtl
    /\ rpc' = "done"
    /\ rcall' = [ResolverCall("set_cache_ttl", << >>, "AF_UNSPEC", 0)
                    EXCEPT !.arg = ttl]
    /\ defaultTtl' = ttl
    /\ tasks' = << >>
    /\ results' = << >>
    /\ UNCHANGED <<cache, enableCache, now>>
    /\ UNCHANGED dvars
    /\ UNCHANGED tvars
    /\ UNCHANGED lvars
    /\ UNCHANGED cvars
    /\ UNCHANGED hvars

\* a second passes on the clock time() reads
Tick ==
    /\ now < MaxTime
    /\ now' = now + 1
    /\ UNCHANGED <<cache, enableCache, defaultTtl, rpc, rcall, tasks, results>>
    /\ UNCHANGED dvars
    /\ UNCHANGED tvars
    /\ UNCHANGED lvars
    /\ UNCHANGED cvars
    /\ UNCHANGED hvars

(***************************************************************************)
(* DNSResolver under threads.  Each thread runs one method at a time, step  *)
(* by step: entering `with self._cache_lock`, the body of the with block,   *)
(* which ends by leaving it, and the lookup primitive between the blocks.   *)
(***************************************************************************)
Threads == {1, 2}

\* threading.Lock(), not held
NoThread == 0

IdleThread == [pc |-> "idle", op |-> "none", host |-> None, ip |-> None]

\* the methods a thread calls, with their argument
LockCalls ==
    {[op |-> o, host |-> h] : o \in {"resolve", "resolve_all"}, h \in Hostnames}
    \cup {[op |-> "clear_cache", host |-> None],
          [op |-> "get_cache_stats", host |-> None],
          [op |-> "reverse_resolve", host |-> V4("a.test")]}

\* set_cache_ttl(ttl) in a thread: one assignment, outside any with block
LockSetCacheTtl(t, ttl) ==
    /\ thr[t].pc = "idle"
    /\ ttl # defaultTtl
    /\ defaultTtl' = ttl
    /\ UNCHANGED <<lock, thr, cache, enableCache, now>>
    /\ UNCHANGED <<rpc, rcall, tasks, results>>
    /\ UNCHANGED dvars
    /\ UNCHANGED tvars
    /\ UNCHANGED cvars
    /\ UNCHANGED hvars

\* a thread is about to enter a with block, is in its body, or is in a
\* lookup primitive
AtWith == {"get_acquire", "put_acquire", "clear_acquire", "stats_acquire"}

InWith == {"get_in", "put_in", "clear_in", "stats_in"}

InPrimitive == {"lookup", "reverse"}

\* a lock anyone may take
LockFreeAlways(l) == TRUE

\* Lock.acquire() returns when no thread holds the lock
LockFree(l) == l = NoThread

\* a with block that leaves the lock held
NoRelease(l) == l

\* the with block is left, by return or by falling off its end: release()
ReleaseAtExit(l) == NoThread

\* a thread calls a method: lines 82-83 go to _get_from_cache when caching is
\* on, else straight to getaddrinfo
LockCall(t, c) ==
    /\ thr[t].pc = "idle"
    /\ c \in LockCalls
    /\ thr' = [thr EXCEPT ![t] =
          [pc |-> CASE c.op \in {"resolve", "resolve_all"} ->
                         IF enableCache THEN "get_acquire" ELSE "lookup"
                    [] c.op = "clear_cache" -> "clear_acquire"
                    [] c.op = "get_cache_stats" -> "stats_acquire"
                    [] OTHER -> "reverse",
           op |-> c.op, host |-> c.host, ip |-> None]]
    /\ UNCHANGED <<lock, cache, enableCache, defaultTtl, now>>
    /\ UNCHANGED <<rpc, rcall, tasks, results>>
    /\ UNCHANGED dvars
    /\ UNCHANGED tvars
    /\ UNCHANGED cvars
    /\ UNCHANGED hvars

\* with self._cache_lock: __enter__
WithEnter(t) ==
    /\ thr[t].pc \in AtWith
    /\ LockFree(lock)
    /\ lock' = t
    /\ thr' = [thr EXCEPT ![t].pc =
          CASE thr[t].pc = "get_acquire" -> "get_in"
            [] thr[t].pc = "put_acquire" -> "put_in"
            [] thr[t].pc = "clear_acquire" -> "clear_in"
            [] OTHER -> "stats_in"]
    /\ UNCHANGED <<cache, enableCache, defaultTtl, now>>
    /\ UNCHANGED <<rpc, rcall, tasks, results>>
    /\ UNCHANGED dvars
    /\ UNCHANGED tvars
    /\ UNCHANGED cvars
    /\ UNCHANGED hvars

\* the body of _get_from_cache, lines 238-243, and the exit of its with
\* block; a hit returns from resolve, a miss goes on to getaddrinfo
WithGet(t) ==
    /\ thr[t].pc = "get_in"
    /\ LET g == GetFromCache(cache, thr[t].host, enableCache,
                             ExpiryTtl(defaultTtl), now)
       IN  /\ cache' = g.cache
           /\ thr' = [thr EXCEPT ![t] =
                 IF g.found THEN IdleThread ELSE [@ EXCEPT !.pc = "lookup"]]
    /\ lock' = ReleaseAtExit(lock)
    /\ UNCHANGED <<enableCache, defaultTtl, now>>
    /\ UNCHANGED <<rpc, rcall, tasks, results>>
    /\ UNCHANGED dvars
    /\ UNCHANGED tvars
    /\ UNCHANGED cvars
    /\ UNCHANGED hvars

\* getaddrinfo returns or raises in the thread: with an address and caching
\* on the thread goes to _store_in_cache, else the method returns
LockLookup(t, out) ==
    /\ thr[t].pc = "lookup"
    /\ out \in Getaddrinfo(thr[t].host, "AF_UNSPEC")
    /\ LET ips == IF thr[t].op = "resolve" THEN IpAddresses(out.info)
                  ELSE Dedup(IpAddresses(out.info))
           ip == FirstOrNone(ips)
       IN  thr' = [thr EXCEPT ![t] =
               IF out.kind = "info" /\ Truthy(ip) /\ enableCache
               THEN [@ EXCEPT !.pc = "put_acquire", !.ip = ip]
               ELSE IdleThread]
    /\ UNCHANGED <<lock, cache, enableCache, defaultTtl, now>>
    /\ UNCHANGED <<rpc, rcall, tasks, results>>
    /\ UNCHANGED dvars
    /\ UNCHANGED tvars
    /\ UNCHANGED cvars
    /\ UNCHANGED hvars

\* the body of _store_in_cache, lines 251-258, and the exit of its with block
WithPut(t) ==
    /\ thr[t].pc = "put_in"
    /\ cache' = StoreInCache(cache, thr[t].host, thr[t].ip, enableCache, now)
    /\ thr' = [thr EXCEPT ![t] = IdleThread]
    /\ lock' = ReleaseAtExit(lock)
    /\ UNCHANGED <<enableCache, defaultTtl, now>>
    /\ UNCHANGED <<rpc, rcall, tasks, results>>
    /\ UNCHANGED dvars
    /\ UNCHANGED tvars
    /\ UNCHANGED cvars
    /\ UNCHANGED hvars

\* clear_cache: self._cache.clear() and the exit of the with block
WithClear(t) ==
    /\ thr[t].pc = "clear_in"
    /\ cache' = Cleared(cache)
    /\ thr' = [thr EXCEPT ![t] = IdleThread]
    /\ lock' = ReleaseAtExit(lock)
    /\ UNCHANGED <<enableCache, defaultTtl, now>>
    /\ UNCHANGED <<rpc, rcall, tasks, results>>
    /\ UNCHANGED dvars
    /\ UNCHANGED tvars
    /\ UNCHANGED cvars
    /\ UNCHANGED hvars

\* get_cache_stats: the dict is built and returned from inside the with block
WithStats(t) ==
    /\ thr[t].pc = "stats_in"
    /\ thr' = [thr EXCEPT ![t] = IdleThread]
    /\ lock' = ReleaseAtExit(lock)
    /\ UNCHANGED <<cache, enableCache, defaultTtl, now>>
    /\ UNCHANGED <<rpc, rcall, tasks, results>>
    /\ UNCHANGED dvars
    /\ UNCHANGED tvars
    /\ UNCHANGED cvars
    /\ UNCHANGED hvars

\* gethostbyaddr returns or raises in the thread and reverse_resolve returns
LockReverse(t, out) ==
    /\ thr[t].pc = "reverse"
    /\ out \in Gethostbyaddr(thr[t].host)
    /\ thr' = [thr EXCEPT ![t] = IdleThread]
    /\ UNCHANGED <<lock, cache, enableCache, defaultTtl, now>>
    /\ UNCHANGED <<rpc, rcall, tasks, results>>
    /\ UNCHANGED dvars
    /\ UNCHANGED tvars
    /\ UNCHANGED cvars
    /\ UNCHANGED hvars

\* DNSResolver(enable_cache, default_ttl): __init__, then _load_config puts
\* the configuration's values over the arguments
ResolverInit(enable_cache, default_ttl) ==
    /\ ctor = [enable_cache |-> enable_cache, default_ttl |-> default_ttl]
    /\ lock = NoThread
    /\ thr = [t \in Threads |-> IdleThread]
    /\ enableCache = DictGet(ConfigDnsResolver, "enable_cache", enable_cache)
    /\ defaultTtl = DictGet(ConfigDnsResolver, "default_ttl", default_ttl)
    /\ cache = << >>
    /\ now = 0
    /\ rpc = "idle"
    /\ rcall = NoResolverCall
    /\ tasks = << >>
    /\ results = << >>

(***************************************************************************)
(* The registry under threads.  PublicIPDetector has no lock: a method run  *)
(* by a thread is a sequence of steps on self._services, each one list or   *)
(* attribute operation, and the steps of two threads interleave.            *)
(***************************************************************************)
RegThreads == {1, 2}

IdleReg == [pc |-> "idle", op |-> "none", arg |-> NoArg, before |-> << >>,
            k |-> 0, items |-> << >>]

\* the registry methods a thread calls, with their arguments
RegCalls ==
    {[op |-> "add_service", arg |-> IPService(n, "https://203.0.113.7/ip", 5, e)] :
        n \in {"ipify", "custom"}, e \in BOOLEAN}
    \cup {[op |-> "remove_service", arg |-> IPService(n, None, 0, FALSE)] :
             n \in {"ipinfo", "custom"}}
    \cup {[op |-> "disable_service", arg |-> IPService("ipify", None, 0, FALSE)],
          [op |-> "enable_service", arg |-> IPService("ipify", None, 0, TRUE)],
          [op |-> "refresh_services", arg |-> NoArg]}

\* a thread calls a registry method; a list get_available_services returned
\* earlier is let go of
RegBegin(t, c) ==
    /\ reg[t].pc \in {"idle", "returned"}
    /\ c \in RegCalls
    /\ view' = << >>
    /\ reg' = [reg EXCEPT ![t] =
          [pc |-> CASE c.op = "add_service" -> "scan"
                    [] c.op = "remove_service" -> "pop"
                    [] c.op = "refresh_services" -> "assign"
                    [] OTHER -> "setattr",
           op |-> c.op, arg |-> c.arg, before |-> services, k |-> 1,
           items |-> << >>]]
    /\ obs' = [op |-> c.op, before |-> services, arg |-> c.arg,
               triple |-> NoTriple]
    /\ UNCHANGED <<services, oids, defaults>>
    /\ UNCHANGED <<lastUsed, dpc, call, probes, errors, si>>
    /\ UNCHANGED rvars
    /\ UNCHANGED lvars
    /\ UNCHANGED cvars

\* _update_service, lines 86-89: one turn of the loop over self._services as
\* the list is at that moment; k = 0 once the loop has ended without a match
RegScan(t) ==
    /\ reg[t].pc = "scan"
    /\ reg' = [reg EXCEPT ![t] =
          IF reg[t].k > Len(services)
          THEN [@ EXCEPT !.pc = "write", !.k = 0]
          ELSE IF services[reg[t].k].name = reg[t].arg.name
          THEN [@ EXCEPT !.pc = "write"]
          ELSE [@ EXCEPT !.k = @ + 1]]
    /\ UNCHANGED <<services, oids, defaults, view, obs>>
    /\ UNCHANGED <<lastUsed, dpc, call, probes, errors, si>>
    /\ UNCHANGED rvars
    /\ UNCHANGED lvars
    /\ UNCHANGED cvars

\* _update_service, line 88 or line 90: self._services[i] = service after a
\* match, self._services.append(service) after none
RegWrite(t) ==
    /\ reg[t].pc = "write"
    /\ reg[t].k <= Len(services)
    /\ LET k == reg[t].k
       IN  IF k > 0
           THEN /\ services' = [services EXCEPT ![k] = reg[t].arg]
                /\ oids' = [oids EXCEPT ![k] =
                               FreshOid((Range(oids) \ {oids[k]}) \cup HeldOids)]
           ELSE /\ services' = Append(services, reg[t].arg)
                /\ oids' = Append(oids, FreshOid(Range(oids) \cup HeldOids))
    /\ reg' = [reg EXCEPT ![t].pc = "returned"]
    /\ UNCHANGED <<defaults, view, obs>>
    /\ UNCHANGED <<lastUsed, dpc, call, probes, errors, si>>
    /\ UNCHANGED rvars
    /\ UNCHANGED lvars
    /\ UNCHANGED cvars

\* remove_service, lines 116-119: the search and the one self._services.pop(i)
RegPop(t) ==
    /\ reg[t].pc = "pop"
    /\ LET i == IndexOfName(services, reg[t].arg.name)
       IN  /\ services' = IF i > 0 THEN RemoveAt(services, i) ELSE services
           /\ oids' = IF i > 0 THEN RemoveAt(oids, i) ELSE oids
    /\ reg' = [reg EXCEPT ![t].pc = "returned"]
    /\ UNCHANGED <<defaults, view, obs>>
    /\ UNCHANGED <<lastUsed, dpc, call, probes, errors, si>>
    /\ UNCHANGED rvars
    /\ UNCHANGED lvars
    /\ UNCHANGED cvars

\* _set_service_enabled, lines 134-137: the search and the one assignment
\* service.enabled = enabled
RegSetAttr(t) ==
    /\ reg[t].pc = "setattr"
    /\ LET i == IndexOfName(services, reg[t].arg.name)
           obj == IF i > 0 THEN oids[i] ELSE NoObject
       IN  /\ services' = SetAttr(services, oids, obj, "enabled",
                                  reg[t].arg.enabled)
           /\ defaults' = SetAttr(defaults, ClassOids, obj, "enabled",
                                  reg[t].arg.enabled)
    /\ reg' = [reg EXCEPT ![t].pc = "returned"]
    /\ UNCHANGED <<oids, view, obs>>
    /\ UNCHANGED <<lastUsed, dpc, call, probes, errors, si>>
    /\ UNCHANGED rvars
    /\ UNCHANGED lvars
    /\ UNCHANGED cvars

\* refresh_services, line 292, and line 71 of _load_services_from_config:
\* self._services is a new copy of DEFAULT_SERVICES, and the section of the
\* configuration is read
RegAssign(t) ==
    /\ reg[t].pc = "assign"
    /\ services' = defaults
    /\ oids' = ClassOids
    /\ reg' = [reg EXCEPT ![t].pc = "merge",
                          ![t].items = IF ItemsRaises(ConfigGet(config)) = None
                                       THEN ConfigGet(config).items
                                       ELSE << >>]
    /\ UNCHANGED <<defaults, view, obs>>
    /\ UNCHANGED <<lastUsed, dpc, call, probes, errors, si>>
    /\ UNCHANGED rvars
    /\ UNCHANGED lvars
    /\ UNCHANGED cvars

\* _load_services_from_config, lines 72-80: one turn of the loop over the
\* section, and the return when it has ended
RegMerge(t) ==
    /\ reg[t].pc = "merge"
    /\ IF reg[t].items = << >>
       THEN /\ reg' = [reg EXCEPT ![t].pc = "returned"]
            /\ UNCHANGED <<services, oids>>
       ELSE LET e == Head(reg[t].items)
            IN  /\ services' = IF IsDict(e)
                               THEN UpdateService(services, ServiceOf(e))
                               ELSE services
                /\ oids' = IF IsDict(e)
                           THEN UpdateOids(services, oids, e.name, HeldOids)
                           ELSE oids
                /\ reg' = [reg EXCEPT ![t].items = Tail(@)]
    /\ UNCHANGED <<defaults, view, obs>>
    /\ UNCHANGED <<lastUsed, dpc, call, probes, errors, si>>
    /\ UNCHANGED rvars
    /\ UNCHANGED lvars
    /\ UNCHANGED cvars

\* the steps of a thread inside a registry method
RegSteps(t) ==
    \/ RegScan(t)
    \/ RegWrite(t)
    \/ RegPop(t)
    \/ RegSetAttr(t)
    \/ RegAssign(t)
    \/ RegMerge(t)

(***************************************************************************)
(* The detector: construction and steps                                    *)
(***************************************************************************)
\* PublicIPDetector(services): the list given (the defaults when it is None),
\* then the configuration merged in
DetectorInit(given) ==
    /\ config = ConfigUnset
    /\ other = << >>
    /\ reg = [t \in RegThreads |-> IdleReg]
    /\ services = LoadServicesFromConfig(IF given = None THEN DEFAULT_SERVICES
                                         ELSE given, ConfigUnset)
    /\ lastUsed = None
    /\ dpc = "idle"
    /\ call = NoCall
    /\ probes = << >>
    /\ errors = << >>
    /\ si = 0
    /\ defaults = DEFAULT_SERVICES
    /\ oids = LoadOidsFromConfig(IF given = None THEN DEFAULT_SERVICES ELSE given,
                                 IF given = None THEN ClassOids ELSE << >>,
                                 ConfigUnset, {})
    /\ view = << >>
    /\ obs = NoObs

\* the steps of a detection call, in either mode
DetectSteps ==
    \/ \E mw \in MaxWorkersArgs : DetectPublicIp(mw)
    \/ \E i \in DOMAIN probes : ProbeStart(i)
    \/ \E i \in DOMAIN probes : ProbeFinish(i)
    \/ \E i \in DOMAIN probes :
          \E http \in HttpOutcomes(probes[i].url) : Yield(i, http)
    \/ AsCompletedTimeout
    \/ AllFailed
    \/ ExecutorExit
    \/ DetectPublicIpSync
    \/ SyncExhausted
    \/ SyncSkipDisabled
    \/ \E u \in {services[i].url : i \in DOMAIN services} :
          \E http \in HttpOutcomes(u) : SyncProbe(http)

\* a detector built with the defaults, whose services are switched on and
\* off and reloaded between detections
Init == DetectorInit(None) /\ ResolverInit(TRUE, DefaultTTL)

Next ==
    \/ DetectSteps
    \/ \E n \in Names : EnableService(n)
    \/ \E n \in Names : DisableService(n)
    \/ RefreshServices

Spec == Init /\ [][Next]_vars

\* the steps inside a detection call: those of the pool's workers and those
\* of the calling thread
CallSteps ==
    \/ \E i \in DOMAIN probes : ProbeStart(i)
    \/ \E i \in DOMAIN probes : ProbeFinish(i)
    \/ \E i \in DOMAIN probes :
          \E http \in HttpOutcomes(probes[i].url) : Yield(i, http)
    \/ AsCompletedTimeout
    \/ AllFailed
    \/ ExecutorExit
    \/ SyncExhausted
    \/ SyncSkipDisabled
    \/ \E u \in {services[i].url : i \in DOMAIN services} :
          \E http \in HttpOutcomes(u) : SyncProbe(http)

\* the same detector when threads that can run do run: a worker with a
\* queued or running probe, whose urlopen returns or times out, and the
\* calling thread in its loop.  Nothing obliges the caller to make calls.
SpecLive == Init /\ [][Next]_vars /\ WF_vars(CallSteps)

\* a detector built with services=[] (its registry is what the configuration
\* holds), whose services are also removed between detections
InitCustom == DetectorInit(<< >>) /\ ResolverInit(TRUE, DefaultTTL)

NextCustom ==
    \/ DetectSteps
    \/ \E n \in Names : RemoveService(n)
    \/ \E n \in Names : EnableService(n)
    \/ \E n \in Names : DisableService(n)

SpecCustom == InitCustom /\ [][NextCustom]_vars

\* the services add_service is called with: a built-in name and a new one
AddArgs ==
    {IPService(n, "https://203.0.113.7/ip", 5, e) :
        n \in {"ipify", "custom"}, e \in BOOLEAN}

\* the names the other registry methods are called with
RegistryNames == Names \cup {"custom"}

\* a detector whose registry is edited, listed and tested by one caller,
\* who lets go of a list it was given before it makes its next call
NextRegistry ==
    \/ view = << >> /\ \E s \in AddArgs : AddService(s)
    \/ view = << >> /\ \E n \in RegistryNames : RemoveService(n)
    \/ view = << >> /\ \E n \in RegistryNames : EnableService(n)
    \/ view = << >> /\ \E n \in RegistryNames : DisableService(n)
    \/ view = << >> /\ RefreshServices
    \/ view = << >> /\ GetAvailableServices
    \/ view = << >> /\ \E n \in RegistryNames : TestService(n)
    \/ CallerDropsList

SpecRegistry == Init /\ [][NextRegistry]_vars

\* a detector whose caller lists the registry and writes to what it was
\* given, between calls that switch services on and off
NextView ==
    \/ GetAvailableServices
    \/ \E j \in DOMAIN view : \E field \in DOMAIN CallerWrites :
          CallerSetsAttr(j, field)
    \/ CallerPops
    \/ \E n \in RegistryNames : EnableService(n)
    \/ \E n \in RegistryNames : DisableService(n)

SpecView == Init /\ [][NextView]_vars

\* a detector whose configuration is set or saved between calls that edit
\* the registry and refresh it
NextConfig ==
    \/ \E v \in ConfigValues : ConfigSet(v)
    \/ SaveServicesToConfig
    \/ RefreshServices
    \/ \E n \in {"ipify", "icanhazip"} : DisableService(n)
    \/ \E n \in {"ipinfo", "custom"} : RemoveService(n)

SpecConfig == Init /\ [][NextConfig]_vars

\* the services the first detector adds while there is a second one
AddArgsShared ==
    {IPService(n, "https://203.0.113.7/ip", 5, TRUE) :
        n \in {"icanhazip", "custom"}}

\* two detectors in one process: the second is constructed at any moment
\* between the calls that edit the registry of the first
NextInstances ==
    \/ ConstructOther
    \/ \E n \in RegistryNames : EnableService(n)
    \/ \E n \in RegistryNames : DisableService(n)
    \/ \E s \in AddArgsShared : AddService(s)
    \/ RefreshServices

SpecInstances == Init /\ [][NextInstances]_vars

\* one thread edits, saves and refreshes the registry step by step while
\* another calls get_available_services while a method of the first is
\* under way; the calls the first thread makes
ReaderCalls ==
    {c \in RegCalls :
        \/ c.op \in {"disable_service", "refresh_services"}
        \/ c.op = "add_service" /\ c.arg.name = "custom" /\ c.arg.enabled
        \/ c.op = "remove_service" /\ c.arg.name = "ipinfo"}

NextReader ==
    \/ \E c \in ReaderCalls : RegBegin(1, c)
    \/ RegSteps(1)
    \/ reg[1].pc \in {"idle", "returned"} /\ SaveServicesToConfig
    \/ reg[1].pc \notin {"idle", "returned"} /\ GetAvailableServices

SpecReader == Init /\ [][NextReader]_vars

\* two threads call add_service at the same time
NextAdders ==
    \/ \E t \in RegThreads :
          \E c \in {r \in RegCalls : r.op = "add_service"} : RegBegin(t, c)
    \/ \E t \in RegThreads : RegScan(t)
    \/ \E t \in RegThreads : RegWrite(t)

SpecAdders == Init /\ [][NextAdders]_vars

\* a resolver built with the default arguments, called from one thread
\* while time passes
InitResolver == DetectorInit(None) /\ ResolverInit(TRUE, DefaultTTL)

NextResolver ==
    \/ \E h \in Hostnames : \E fam \in Families : ResolveCall(h, fam)
    \/ \E h \in Hostnames : \E fam \in Families : ResolveAllCall(h, fam)
    \/ \E t \in DOMAIN tasks : TaskCheck(t)
    \/ \E t \in DOMAIN tasks :
          \E out \in Getaddrinfo(tasks[t].host, rcall.family) :
             TaskLookup(t, out)
    \/ ResolveReturn
    \/ ClearCache
    \/ GetCacheStats
    \/ \E ttl \in TtlArgs : SetCacheTtl(ttl)
    \/ \E ip \in ReverseArgs : \E out \in Gethostbyaddr(ip) :
          ReverseResolve(ip, out)
    \/ Tick

SpecResolver == InitResolver /\ [][NextResolver]_vars

\* a resolver whose batch_resolve is called again and again, the cache
\* filling up from one batch to the next
NextBatch ==
    \/ \E hs \in BatchInputs : \E fam \in Families :
          \E mw \in BatchWorkersArgs : BatchResolve(hs, fam, mw)
    \/ \E t \in DOMAIN tasks : TaskCheck(t)
    \/ \E t \in DOMAIN tasks :
          \E out \in Getaddrinfo(tasks[t].host, rcall.family) :
             TaskLookup(t, out)
    \/ \E t \in DOMAIN tasks : BatchYield(t)
    \/ BatchReturn

SpecBatch == InitResolver /\ [][NextBatch]_vars

\* a resolver built with any arguments, whose resolve, resolve_all and
\* get_cache_stats are called
InitCtor ==
    /\ DetectorInit(None)
    /\ \E ec \in BOOLEAN : \E ttl \in TtlArgs : ResolverInit(ec, ttl)

NextCtor ==
    \/ \E h \in Hostnames : \E fam \in Families : ResolveCall(h, fam)
    \/ \E h \in Hostnames : \E fam \in Families : ResolveAllCall(h, fam)
    \/ \E t \in DOMAIN tasks : TaskCheck(t)
    \/ \E t \in DOMAIN tasks :
          \E out \in Getaddrinfo(tasks[t].host, rcall.family) :
             TaskLookup(t, out)
    \/ ResolveReturn
    \/ GetCacheStats

SpecCtor == InitCtor /\ [][NextCtor]_vars

\* a resolver whose methods are called from two threads while time passes
\* and the TTL is set
NextLock ==
    \/ \E t \in Threads : \E c \in LockCalls : LockCall(t, c)
    \/ \E t \in Threads : WithEnter(t)
    \/ \E t \in Threads : WithGet(t)
    \/ \E t \in Threads :
          \E out \in Getaddrinfo(thr[t].host, "AF_UNSPEC") : LockLookup(t, out)
    \/ \E t \in Threads : WithPut(t)
    \/ \E t \in Threads : WithClear(t)
    \/ \E t \in Threads : WithStats(t)
    \/ \E t \in Threads :
          \E out \in Gethostbyaddr(thr[t].host) : LockReverse(t, out)
    \/ \E t \in Threads : \E ttl \in TtlArgs : LockSetCacheTtl(t, ttl)
    \/ Tick

SpecLock == InitResolver /\ [][NextLock]_vars

(***************************************************************************)
(* Properties of detection                                                 *)
(***************************************************************************)
RaceReturned == dpc = "done" /\ call.op = "detect_public_ip"

SyncReturned == dpc = "done" /\ call.op = "detect_public_ip_sync"

NonEmptyAddress(x) == x \notin {None, ""}

\* the result of probe i was read and was a failure or an empty body
SeenFailing(i) == probes[i].st = "yielded" /\ ~NonEmptyAddress(probes[i].ip)

\* a run in which probe i was not seen failing is a run of a world in which
\* the service of probe i is guaranteed to return a non-empty body
SomeProbeMaySucceed == \E i \in DOMAIN probes : ~SeenFailing(i)

RaceSucceeded ==
    /\ call.raised = None
    /\ NonEmptyAddress(call.ret)
    /\ lastUsed \in call.enabled

C2_SequentialFallbackOrder ==
    LET en == EnabledServices(services)
    IN  ( /\ SyncReturned
          /\ Len(en) = 3
          /\ Len(probes) >= 2
          /\ probes[1].name = en[1].name /\ probes[1].error # None
          /\ probes[2].name = en[2].name /\ NonEmptyAddress(probes[2].ip)
          /\ Len(probes) >= 3 => NonEmptyAddress(probes[3].ip) )
        => (call.raised = None /\ call.ret = AddrOf(en[2].url))

NoneEnabled == \A i \in DOMAIN services : ~services[i].enabled

\* C3: on a registry that is empty or has every service disabled, both
\* detection modes start no probe and return None.
C3_NoEnabledNoProbe ==
    (call.op \in {"detect_public_ip", "detect_public_ip_sync"} /\ NoneEnabled)
        => /\ probes = << >>
           /\ dpc = "done" => (call.ret = None /\ call.raised = None)

\* race mode has returned on a registry that holds only disabled services
C3_Witness ==
    /\ RaceReturned
    /\ services # << >>
    /\ NoneEnabled

\* sequential mode has returned on an empty registry
C3_WitnessSyncEmpty == SyncReturned /\ services = << >>

AllProbesFailed ==
    /\ probes # << >>
    /\ \A i \in DOMAIN probes : SeenFailing(i)

\* C4: when every launched probe has completed with a failure or an empty
\* body, detect_public_ip returns None without raising, and `errors` holds
\* an entry for each service that was enabled, with that probe's error.
C4_RaceTotalFailure ==
    (RaceReturned /\ AllProbesFailed)
        => /\ call.ret = None
           /\ call.raised = None
           /\ DOMAIN errors = call.enabled
           /\ \A i \in DOMAIN probes : errors[probes[i].name] = probes[i].error

\* all four default services were probed and failed, one by a timeout of
\* its own and one with an empty body
C4_Witness ==
    /\ RaceReturned
    /\ AllProbesFailed
    /\ Len(probes) = Len(DEFAULT_SERVICES)
    /\ \E i \in DOMAIN probes : probes[i].error = "Timeout"
    /\ \E i \in DOMAIN probes : probes[i].ip = ""

\* C5: when the caller's timeout passes with probes outstanding and no
\* success, detect_public_ip reports no result (None) and raises nothing.
C5_TimeoutReturnsNone ==
    (call.op = "detect_public_ip" /\ call.exit = "timeout")
        => /\ call.raised = None
           /\ dpc = "done" => call.ret = None

\* C6: once a probe has yielded a non-empty address, the return to the
\* caller does not wait for the probes still queued or running.
C6_ReturnsWithoutWaiting ==
    (call.op = "detect_public_ip" /\ dpc = "exit" /\ call.exit = "winner")
        => ENABLED ExecutorExit


(***************************************************************************)
(* DNSResolver: properties                                                 *)
(***************************************************************************)
ResolveReturned == rpc = "done" /\ rcall.op = "resolve"

BatchReturned == rpc = "done" /\ rcall.op = "batch_resolve"

\* the record the cache holds for h has address ip
CacheHolds(h, ip) ==
    \E i \in DOMAIN cache : cache[i].hostname = h /\ cache[i].ip_address = ip

\* C7: a resolve(h) that finds a record of h whose age (now - timestamp) is
\* at most the TTL returns that record's address and makes no getaddrinfo
\* call; one that finds a record older than the TTL calls getaddrinfo; and
\* the record a successful lookup leaves behind holds the address returned.
C7_CacheHitAndExpiry ==
    ResolveReturned =>
        LET t == tasks[1]
        IN  /\ (t.age # -1 /\ t.age <= t.ttl) =>
                  (rcall.ret = t.cachedIp /\ rcall.ret # None /\ t.lookups = 0)
            /\ (t.age # -1 /\ t.age > t.ttl) => t.lookups = 1
            /\ (t.lookups = 1 /\ rcall.ret # None) =>
                  CacheHolds(t.host, rcall.ret)
            /\ rcall.raised = None

\* a resolve answered from a record whose age is exactly the TTL
C7_Witness ==
    /\ ResolveReturned
    /\ tasks[1].age = tasks[1].ttl
    /\ tasks[1].age > 0
    /\ rcall.ret = tasks[1].cachedIp
    /\ tasks[1].lookups = 0

\* a resolve that found an expired record, looked the name up again and got
\* another address than the record held
C7_WitnessExpired ==
    /\ ResolveReturned
    /\ tasks[1].age > tasks[1].ttl
    /\ tasks[1].lookups = 1
    /\ rcall.ret \notin {None, tasks[1].cachedIp}

InputHostnames == {rcall.hosts[i] : i \in DOMAIN rcall.hosts}

\* C8: the mapping batch_resolve returns has exactly the distinct hostnames
\* of its input as keys, whatever the order in which the workers ran and
\* finished.
C8_BatchKeySet ==
    BatchReturned => (rcall.raised = None /\ DOMAIN results = InputHostnames)

\* a batch over a list with a repeated hostname, one of whose lookups failed
C8_Witness ==
    /\ BatchReturned
    /\ Len(rcall.hosts) = 3
    /\ Cardinality(DOMAIN results) = 2
    /\ \E h \in DOMAIN results : results[h] = None

TasksOf(h) == {t \in DOMAIN tasks : tasks[t].host = h}

LookupFailed(t) == tasks[t].how \in {"empty"} \cup LookupExceptions

\* what a run of resolve on its own gives for tasks[t].host: the cached
\* address on a hit, None after a failed lookup, and otherwise one of the
\* host's own addresses
AsResolveAlone(t) ==
    /\ tasks[t].exc = None
    /\ tasks[t].how = "hit" => tasks[t].ret = tasks[t].cachedIp
    /\ LookupFailed(t) => tasks[t].ret = None
    /\ tasks[t].how = "found" =>
          tasks[t].ret \in {V4(tasks[t].host), V6(tasks[t].host)}
    /\ tasks[t].ret # None =>
          tasks[t].ret \in {V4(tasks[t].host), V6(tasks[t].host)}

\* C9: batch_resolve never raises; every hostname is mapped to what one of
\* its own runs of resolve returned, which is what resolve gives for that
\* hostname alone; a hostname all of whose lookups failed is mapped to None,
\* whatever happened to the other hostnames.
C9_BatchFailureIsolation ==
    BatchReturned =>
        /\ rcall.raised = None
        /\ \A t \in DOMAIN tasks : AsResolveAlone(t)
        /\ \A h \in InputHostnames :
              /\ h \in DOMAIN results
              /\ \E t \in TasksOf(h) : results[h] = tasks[t].ret
              /\ (\A t \in TasksOf(h) : LookupFailed(t)) => results[h] = None

\* a batch in which the lookup of one hostname raised something else than
\* gaierror and the other hostname got its address
C9_Witness ==
    /\ BatchReturned
    /\ \E t \in DOMAIN tasks : tasks[t].how = "UnicodeError"
    /\ \E h \in DOMAIN results : results[h] = None
    /\ \E h \in DOMAIN results : results[h] # None

\* C10: get_cache_stats called next after clear_cache, with no call of the
\* resolver in progress or in between, reports size 0 and no hostnames.
C10_ClearedStats ==
    (rcall.op = "get_cache_stats" /\ rcall.prev = "clear_cache") =>
        (rcall.stats.size = 0 /\ rcall.stats.hostnames = << >>)

\* the statistics after a clear_cache that removed two records
C10_Witness ==
    /\ rcall.op = "get_cache_stats"
    /\ rcall.prev = "clear_cache"
    /\ rcall.dropped = 2
    /\ rcall.stats.size = 0

(***************************************************************************)
(* The registry: properties                                                *)
(***************************************************************************)
HasName(svcs, n) == \E i \in DOMAIN svcs : svcs[i].name = n

Added == obs.op = "add_service"

\* C11: add_service with a name the registry has leaves the registry as
\* long as it was, puts the new url, timeout and enabled flag in the slot of
\* that name, and leaves every other slot as it was.
C11_AddReplacesInPlace ==
    (Added /\ HasName(obs.before, obs.arg.name)) =>
        /\ Len(services) = Len(obs.before)
        /\ \A i \in DOMAIN obs.before :
              services[i] = IF obs.before[i].name = obs.arg.name
                            THEN obs.arg ELSE obs.before[i]

\* an entry that is not the last one was replaced by one with another url,
\* timeout and flag
C11_Witness ==
    /\ Added
    /\ \E i \in DOMAIN obs.before :
          /\ i < Len(obs.before)
          /\ obs.before[i].name = obs.arg.name
          /\ obs.before[i].url # obs.arg.url
          /\ obs.before[i].timeout # obs.arg.timeout
          /\ obs.before[i].enabled # obs.arg.enabled
          /\ services[i] = obs.arg

\* C12: add_service with a name the registry does not have puts the new
\* entry after all the others, which stay as they were; and the list
\* get_available_services returns holds the entries of the registry, in
\* order.
C12_AddAppends ==
    /\ (Added /\ ~HasName(obs.before, obs.arg.name)) =>
          /\ Len(services) = Len(obs.before) + 1
          /\ services[Len(services)] = obs.arg
          /\ \A i \in DOMAIN obs.before : services[i] = obs.before[i]
    /\ obs.op = "get_available_services" =>
          /\ Len(view) = Len(services)
          /\ \A i \in DOMAIN view : view[i].val = services[i]

\* a new name was added to a registry that had entries
C12_Witness ==
    /\ Added
    /\ obs.before # << >>
    /\ ~HasName(obs.before, obs.arg.name)
    /\ services[Len(services)].name = obs.arg.name

\* the registry listed after a new name was added
C12_WitnessListed ==
    /\ obs.op = "get_available_services"
    /\ \E i \in DOMAIN view : view[i].val.name = "custom"

Without(svcs, n) == SelectSeq(svcs, LAMBDA x : x.name # n)

\* C13: remove_service(name) returns True exactly when the registry had an
\* entry of that name; then the registry is what it was without that entry,
\* and otherwise it is what it was.
C13_RemoveFrame ==
    obs.op = "remove_service" =>
        /\ call.ret = HasName(obs.before, obs.arg.name)
        /\ ~HasName(services, obs.arg.name)
        /\ services = Without(obs.before, obs.arg.name)
        /\ ~HasName(obs.before, obs.arg.name) => services = obs.before

\* an entry that was not the last one was removed
C13_Witness ==
    /\ obs.op = "remove_service"
    /\ call.ret = TRUE
    /\ \E i \in DOMAIN obs.before :
          i < Len(obs.before) /\ obs.before[i].name = obs.arg.name
    /\ Len(services) >= 2

\* a name the registry does not have was removed
C13_WitnessAbsent ==
    /\ obs.op = "remove_service"
    /\ call.ret = FALSE
    /\ services # << >>

\* C14: enable_service and disable_service return True exactly when the
\* registry has an entry of that name; that entry gets the flag and keeps
\* its url and timeout, and every other entry and the order stay as they
\* were.
C14_SetEnabledFrame ==
    obs.op \in {"enable_service", "disable_service"} =>
        /\ call.ret = HasName(obs.before, obs.arg.name)
        /\ obs.arg.enabled = (obs.op = "enable_service")
        /\ Len(services) = Len(obs.before)
        /\ \A i \in DOMAIN obs.before :
              services[i] =
                  IF obs.before[i].name = obs.arg.name
                  THEN [obs.before[i] EXCEPT !.enabled = obs.arg.enabled]
                  ELSE obs.before[i]

\* a service was switched off while another was on and a third was off
C14_Witness ==
    /\ obs.op = "disable_service"
    /\ call.ret = TRUE
    /\ \E i, j, k \in DOMAIN services :
          /\ services[i].name = obs.arg.name
          /\ obs.before[i].enabled /\ ~services[i].enabled
          /\ j # i /\ services[j].enabled
          /\ k # i /\ ~services[k].enabled

\* C15: nothing the caller does to the list get_available_services gave it,
\* or to an entry of that list, changes the registry.
C15_ListIsDefensiveCopy ==
    obs.op \in {"entry.setattr", "list.pop"} => services = obs.before

DetectionCall == call.op \in {"detect_public_ip", "detect_public_ip_sync"}

EnabledNow(n) ==
    \E i \in DOMAIN services : services[i].name = n /\ services[i].enabled

\* C16: every probe of a detection call, in either mode, is of a service
\* that is enabled, and so is the service an address came from.
C16_OnlyEnabledProbed ==
    DetectionCall =>
        /\ \A i \in DOMAIN probes : EnabledNow(probes[i].name)
        /\ call.ret # None => EnabledNow(lastUsed)

\* a sequential detection went past a disabled service and probed a later one
C16_Witness ==
    /\ SyncReturned
    /\ \E i, j \in DOMAIN services :
          /\ i < j
          /\ ~services[i].enabled
          /\ \E k \in DOMAIN probes : probes[k].name = services[j].name

\* a race with a disabled service in the registry returned an address
C16_WitnessRace ==
    /\ RaceReturned
    /\ call.ret # None
    /\ \E i \in DOMAIN services : ~services[i].enabled

C18_TestServiceTriple ==
    obs.op = "test_service" =>
        /\ call.raised = None
        /\ IF HasName(obs.before, obs.arg.name)
           THEN /\ Len(probes) = 1
                /\ probes[1].name = obs.arg.name
                /\ obs.triple.ip = probes[1].ip
                /\ obs.triple.success = (obs.triple.ip # None)
           ELSE /\ probes = << >>
                /\ obs.triple = Triple(FALSE, None, "Service not found")

\* a resolve that came back after a lookup that raised or reported nothing
ResolveFailed ==
    /\ ResolveReturned
    /\ tasks[1].lookups = 1
    /\ tasks[1].how \in {"empty"} \cup LookupExceptions

\* C19 as stated: a resolve whose lookup raises, whatever the exception, or
\* reports no address, returns None, raises nothing and leaves the cache as
\* the call found it.
C19_FailureLeavesCacheUnchanged ==
    ResolveFailed =>
        /\ rcall.ret = None
        /\ rcall.raised = None
        /\ cache = rcall.cacheAt

\* C19, amended: such a resolve returns None, raises nothing and stores no
\* record; the records of the other hostnames are as the call found them,
\* and the record of the hostname itself, which the cache check found
\* expired, is gone.
C19_FailureStoresNothing ==
    ResolveFailed =>
        /\ rcall.ret = None
        /\ rcall.raised = None
        /\ cache = SelectSeq(rcall.cacheAt,
                             LAMBDA r : r.hostname # tasks[1].host)

\* a resolve whose lookup raised something else than gaierror, after the
\* cache check had thrown out the expired record of its hostname and left
\* the record of another one
C19_Witness ==
    /\ ResolveFailed
    /\ tasks[1].how = "UnicodeError"
    /\ tasks[1].age > tasks[1].ttl
    /\ cache # << >>
    /\ Len(rcall.cacheAt) = Len(cache) + 1

ResolveAllMissed ==
    /\ rpc = "done"
    /\ rcall.op = "resolve_all"
    /\ tasks[1].lookups = 1
    /\ tasks[1].how \in {"found", "empty"}

FirstAt(seq, x) == CHOOSE i \in DOMAIN seq :
                       seq[i] = x /\ \A j \in 1..(i - 1) : seq[j] # x

RecordsOf(h) == {i \in DOMAIN cache : cache[i].hostname = h}

\* C20: a resolve_all that missed the cache returns the addresses
\* getaddrinfo reported, each once, in the order in which they first
\* occurred; when there is one, the cache then holds exactly one record of
\* the hostname, with the first of them.
C20_ResolveAllDistinct ==
    ResolveAllMissed =>
        LET l == rcall.list
            r == tasks[1].reported
        IN  /\ Range(l) = Range(r)
            /\ \A i, j \in DOMAIN l : i # j => l[i] # l[j]
            /\ \A i, j \in DOMAIN l : i < j => FirstAt(r, l[i]) < FirstAt(r, l[j])
            /\ rcall.raised = None
            /\ l # << >> =>
                  /\ Cardinality(RecordsOf(tasks[1].host)) = 1
                  /\ CacheHolds(tasks[1].host, l[1])
            /\ l = << >> => RecordsOf(tasks[1].host) = {}

\* getaddrinfo reported an address twice and another one after it
C20_Witness ==
    /\ ResolveAllMissed
    /\ Len(tasks[1].reported) = 3
    /\ Len(rcall.list) = 2
    /\ CacheHolds(tasks[1].host, rcall.list[1])

ResolveAllReturned == rpc = "done" /\ rcall.op = "resolve_all"

C22_ReverseResolveFrame ==
    rcall.op = "reverse_resolve" =>
        /\ cache = rcall.cacheAt
        /\ tasks[1].lookups = 1
        /\ rcall.raised = None
        /\ tasks[1].how \in ReverseExceptions => rcall.ret = None
        /\ tasks[1].how = "found" => rcall.ret = PtrName(rcall.hosts[1])

\* the address of a cached record was looked up in reverse and gethostbyaddr
\* raised something else than herror
C22_Witness ==
    /\ rcall.op = "reverse_resolve"
    /\ \E i \in DOMAIN cache : cache[i].ip_address = rcall.hosts[1]
    /\ tasks[1].how = "gaierror"
    /\ rcall.ret = None

\* a record was looked for and found
Looked(t) == t.op \in {"resolve", "resolve_all"} /\ t.pc # "queued" /\ t.age # -1

\* C23: set_cache_ttl sets the TTL and leaves every record, timestamps
\* included, as it was; a lookup that finds a record takes it as a hit
\* exactly when its age is at most the TTL in force at that lookup.
C23_SetTtlAffectsLaterChecksOnly ==
    /\ rcall.op = "set_cache_ttl" =>
          (cache = rcall.cacheAt /\ defaultTtl = rcall.arg)
    /\ (rpc \in {"resolve", "done"} /\ tasks # << >> /\ Looked(tasks[1])) =>
          /\ tasks[1].ttl = defaultTtl
          /\ (tasks[1].how = "hit") = (tasks[1].age <= defaultTtl)

\* a record stored under the default TTL was older than the TTL set later,
\* and the lookup after that took it as expired
C23_Witness ==
    /\ ResolveReturned
    /\ rcall.prev = "set_cache_ttl"
    /\ defaultTtl < DefaultTTL
    /\ tasks[1].age > defaultTtl
    /\ tasks[1].lookups = 1

\* a record that had expired under a short TTL was a hit again after the TTL
\* was set back
C23_WitnessRaised ==
    /\ ResolveReturned
    /\ rcall.prev = "set_cache_ttl"
    /\ defaultTtl = DefaultTTL
    /\ tasks[1].age > 1
    /\ tasks[1].how = "hit"

\* C30: a cache lookup that finds a record older than the TTL removes it and
\* reports a miss; one that finds a record of age at most the TTL returns it
\* and leaves it in place; the records of the other hostnames are as they
\* were in both cases.
C30_LazyEviction ==
    (rpc = "resolve" /\ tasks[1].pc # "queued") =>
        LET t == tasks[1]
            others == SelectSeq(rcall.cacheAt, LAMBDA r : r.hostname # t.host)
        IN  /\ (t.age # -1 /\ t.age > t.ttl) =>
                  (t.how # "hit" /\ (t.pc = "lookup" => cache = others))
            /\ (t.age # -1 /\ t.age <= t.ttl) =>
                  /\ t.how = "hit"
                  /\ t.ret = t.cachedIp
                  /\ cache = rcall.cacheAt
            /\ SelectSeq(cache, LAMBDA r : r.hostname # t.host) = others

\* the expired record of one hostname was removed and the record of the
\* other is still there
C30_Witness ==
    /\ rpc = "resolve"
    /\ tasks[1].pc = "lookup"
    /\ tasks[1].age > tasks[1].ttl
    /\ Len(rcall.cacheAt) = 2
    /\ Len(cache) = 1

\* C24: a resolver constructed with enable_cache=False has caching off: its
\* cache stays empty, get_cache_stats reports size 0 and enabled False, and
\* every resolve calls getaddrinfo.
C24_CacheOffWhenConstructedOff ==
    ~ctor.enable_cache =>
        /\ ~enableCache
        /\ cache = << >>
        /\ rcall.op = "get_cache_stats" =>
              (rcall.stats.size = 0 /\ ~rcall.stats.enabled)
        /\ ResolveReturned => tasks[1].lookups = 1

\* the value _load_services_from_config reads from the configuration
C25_Section == IF config.kind = "unset" THEN ConfigIpServices ELSE config

\* the entries that are dicts, and those that are not
C25_WellFormed ==
    {C25_Section.items[i] : i \in {j \in DOMAIN C25_Section.items :
                                      C25_Section.items[j].isdict}}

C25_Malformed ==
    {C25_Section.items[i] : i \in {j \in DOMAIN C25_Section.items :
                                      ~C25_Section.items[j].isdict}}

C25_Field(e, key, default) == IF key \in DOMAIN e.d THEN e.d[key] ELSE default

\* C25: after construction and after refresh_services the call has returned
\* without an exception; every entry of ip_services that is a mapping is in
\* the registry exactly once, with url "", timeout 10 and enabled true for
\* the fields it lacks; an entry that is not a mapping adds nothing and
\* changes nothing; the default services no mapping names are as they were,
\* in their places; and a section that cannot be iterated leaves the defaults.
C25_MergeNeverFails ==
    obs.op \in {"none", "refresh_services"} =>
        /\ call.raised = None
        /\ call.exit # "raised"
        /\ IF C25_Section.kind = "dict"
           THEN /\ \A e \in C25_WellFormed :
                      /\ Cardinality({i \in DOMAIN services :
                                         services[i].name = e.name}) = 1
                      /\ \E i \in DOMAIN services :
                            services[i] =
                                [name |-> e.name,
                                 url |-> C25_Field(e, "url", ""),
                                 timeout |-> C25_Field(e, "timeout", 10),
                                 enabled |-> C25_Field(e, "enabled", TRUE)]
                /\ \A i \in DOMAIN defaults :
                      /\ services[i].name = defaults[i].name
                      /\ (\A e \in C25_WellFormed : e.name # defaults[i].name)
                            => services[i] = defaults[i]
                /\ \A i \in DOMAIN services :
                      \/ i \in DOMAIN defaults
                      \/ \E e \in C25_WellFormed : e.name = services[i].name
           ELSE services = defaults

\* refresh_services has merged a section with an entry that is not a mapping
\* between two that are, each lacking fields
C25_Witness ==
    /\ obs.op = "refresh_services"
    /\ config.kind = "dict"
    /\ Len(config.items) = 3
    /\ ~config.items[2].isdict
    /\ services[1] = IPService("ipify", "", 10, FALSE)
    /\ Len(services) = 5
    /\ services[5] = IPService("custom", "https://203.0.113.7/ip", 10, TRUE)
    /\ \A i \in DOMAIN services : services[i].name # "broken"

\* refresh_services has met a section that is not a mapping
C25_WitnessMergeErrors ==
    /\ obs.op = "refresh_services"
    /\ config.kind = "list"
    /\ call.exit = "returned"
    /\ services = defaults

\* the registry seen through the second detector
C26_OtherRegistry == [j \in DOMAIN other |-> other[j].val]

\* C26: enabling or disabling a service through one detector leaves the
\* registry of a detector constructed before unchanged, and a detector
\* constructed afterwards starts with the built-in services as they are
\* written in the class.
C26_InstancesShareNoEntry ==
    [][/\ obs'.op \in {"enable_service", "disable_service"} =>
              C26_OtherRegistry' = C26_OtherRegistry
       /\ obs'.op = "PublicIPDetector()" =>
              C26_OtherRegistry' = DEFAULT_SERVICES]_vars

\* how far a probe has got
C27_Rank(st) ==
    CASE st = "queued" -> 0
      [] st = "running" -> 1
      [] st = "finished" -> 2
      [] OTHER -> 3

\* the names of the enabled entries of the registry, in registry order
C27_EnabledNames ==
    LET idx == {i \in DOMAIN services : services[i].enabled}
        RECURSIVE upto(_)
        upto(n) == IF n = 0 THEN << >>
                   ELSE IF n \in idx THEN Append(upto(n - 1), services[n].name)
                        ELSE upto(n - 1)
    IN  upto(Len(services))

\* C27: throughout a race-mode call no more than max_workers probes are
\* running, there is exactly one probe for each enabled entry of the
\* registry, and a probe only moves forward (queued, running, finished,
\* read): none is started a second time.
C27_BoundedAndOncePerService ==
    /\ [](call.op = "detect_public_ip" =>
            /\ Cardinality({i \in DOMAIN probes : probes[i].st = "running"})
                  <= call.workers
            /\ [i \in DOMAIN probes |-> probes[i].name] = C27_EnabledNames)
    /\ [][(call.op = "detect_public_ip" /\ dpc \notin {"idle", "done"}) =>
            /\ DOMAIN probes' = DOMAIN probes
            /\ \A i \in DOMAIN probes :
                  /\ C27_Rank(probes'[i].st) >= C27_Rank(probes[i].st)
                  /\ probes'[i].name = probes[i].name]_vars

\* one worker: a probe has been read, the next is running and one waits
C27_Witness ==
    /\ call.op = "detect_public_ip"
    /\ dpc = "as_completed"
    /\ call.workers = 1
    /\ Len(probes) >= 3
    /\ \E i, j, k \in DOMAIN probes :
          /\ probes[i].st = "yielded"
          /\ probes[j].st = "running"
          /\ probes[k].st = "queued"

\* C28: no thread holds the cache lock while it is in getaddrinfo or
\* gethostbyaddr, and whoever holds the lock is inside the body of one with
\* block (a get, a put, a clear or a stats snapshot).
C28_LockNotHeldAcrossLookup ==
    /\ \A t \in Threads : thr[t].pc \in InPrimitive => lock # t
    /\ lock # NoThread => thr[lock].pc \in InWith

\* one thread is in getaddrinfo after a miss while the other holds the lock
\* in _get_from_cache
C28_Witness ==
    /\ thr[1].pc = "lookup"
    /\ thr[1].op = "resolve"
    /\ thr[2].pc = "get_in"
    /\ lock = 2

\* C29: a thread that is in the body of a with block, where the mapping is
\* read or written, holds the cache lock, so at most one thread is there.
C29_MappingAccessUnderLock ==
    /\ \A t \in Threads : thr[t].pc \in InWith => lock = t
    /\ Cardinality({t \in Threads : thr[t].pc \in InWith}) <= 1

\* one thread is storing a record while the other waits to clear the cache
C29_Witness ==
    /\ thr[1].pc = "put_in"
    /\ lock = 1
    /\ thr[2].pc = "clear_acquire"
    /\ cache # << >>

\* C32: in race mode a probe that ended in an HTTPError (a response with a status that is
\* not 2xx) carries the "HTTP error" text, and a probe that ended in a plain
\* URLError or a socket.timeout carries another one.
C32_HttpStatusIsProtocolError ==
    call.op = "detect_public_ip" => \A i \in DOMAIN probes :
        /\ probes[i].exc = "HTTPError" => probes[i].error = "HTTP error"
        /\ probes[i].exc \in {"URLError", "socket.timeout"} =>
              probes[i].error # "HTTP error"

\* a detection call is under way
C33_InCall == dpc \notin {"idle", "done"}

\* C33: a detection call that has started ends, and it ends by returning an
\* address or None to its caller.
C33_DetectionReturns ==
    /\ C33_InCall ~> (dpc = "done")
    /\ [](dpc = "done" /\ call.op \in {"detect_public_ip", "detect_public_ip_sync"}
            => call.raised = None /\ call.exit # "raised")

\* a detection call that has started ends
C33_DetectionEnds == C33_InCall ~> (dpc = "done")

\* C34: no two entries of the registry have the same name.
C34_NamesUnique ==
    \A i, j \in DOMAIN services :
        services[i].name = services[j].name => i = j

\* add_service was called with a name the registry already had, after a
\* service that is not built in had been added
C34_Witness ==
    /\ obs.op = "add_service"
    /\ \E i \in DOMAIN obs.before : obs.before[i].name = obs.arg.name
    /\ obs.arg.name = "custom"
    /\ Len(services) = Len(obs.before)
    /\ \E i \in DOMAIN services : services[i] = obs.arg
    /\ \E i \in DOMAIN obs.before : obs.before[i] # services[i]

\* the registry a method called on `before` ends with when nothing else runs
C31_After(r) ==
    LET i == IndexOfName(r.before, r.arg.name)
    IN  CASE r.op = "add_service" ->
                IF i > 0 THEN [r.before EXCEPT ![i] = r.arg]
                ELSE Append(r.before, r.arg)
          [] r.op = "remove_service" ->
                IF i > 0 THEN SubSeq(r.before, 1, i - 1)
                              \o SubSeq(r.before, i + 1, Len(r.before))
                ELSE r.before
          [] r.op \in {"enable_service", "disable_service"} ->
                IF i > 0 THEN [r.before EXCEPT ![i].enabled = r.arg.enabled]
                ELSE r.before
          [] OTHER -> LoadServicesFromConfig(defaults, config)

\* the list a reader was given, by value
C31_Copy == [j \in DOMAIN view |-> view[j].val]

\* C31: the list get_available_services returns while a registry method of
\* another thread is under way is the registry as it was before that method
\* began or as it is when the method has ended.
C31_ReaderSeesBeforeOrAfter ==
    \A t \in RegThreads :
        (reg[t].pc \notin {"idle", "returned"}
            /\ obs.op = "get_available_services")
        => (C31_Copy = reg[t].before \/ C31_Copy = C31_After(reg[t]))

\* the same for the methods that are not refresh_services
C31_SingleWriteMethodsAtomic ==
    \A t \in RegThreads :
        (reg[t].pc \notin {"idle", "returned"}
            /\ reg[t].op # "refresh_services"
            /\ obs.op = "get_available_services")
        => (C31_Copy = reg[t].before \/ C31_Copy = C31_After(reg[t]))

\* C35: when two threads have both returned from add_service of the same
\* name, a name the registry had not when either call began, the registry
\* has exactly one entry of that name.
C35_ConcurrentAddKeepsNameUnique ==
    (/\ \A t \in RegThreads :
           /\ reg[t].pc = "returned"
           /\ reg[t].op = "add_service"
           /\ \A i \in DOMAIN reg[t].before :
                 reg[t].before[i].name # reg[t].arg.name
     /\ reg[1].arg.name = reg[2].arg.name)
    => Cardinality({i \in DOMAIN services :
                       services[i].name = reg[1].arg.name}) = 1

\* C36: _last_used_service changes only in the step in which a call gets an
\* address to return, and what a call is to return does not change once it
\* is set: a detection call that returns None has left it as it was.
C36_NoneLeavesLastUsed ==
    /\ [][/\ lastUsed' # lastUsed =>
                 /\ call'.op \in {"detect_public_ip", "detect_public_ip_sync"}
                 /\ call'.exit = "winner"
                 /\ call'.ret \notin {None, ""}
          /\ (dpc \notin {"idle", "done"} /\ call.exit = "winner") =>
                 (call'.exit = "winner" /\ call'.ret = call.ret)]_vars
    /\ [](call.exit = "winner" => call.ret \notin {None, ""})

\* race mode has returned None after every probe failed, and a call before
\* it had a winner
C36_Witness ==
    /\ dpc = "done"
    /\ call.op = "detect_public_ip"
    /\ call.exit = "all_failed"
    /\ call.ret = None
    /\ lastUsed # None

\* race mode has returned None with no service enabled, after a call before
\* it had a winner
C36_WitnessNoneEnabled ==
    /\ dpc = "done"
    /\ call.op = "detect_public_ip"
    /\ call.exit = "no_enabled"
    /\ lastUsed # None

\* C37: race mode never returns an empty or blank string.  What it returns
\* is None or the address in the body of a probe it has read; reading a
\* probe whose body is empty after trimming leaves the call in its loop
\* over the remaining probes, with nothing decided.
C37_RaceNeverReturnsEmpty ==
    /\ [](call.op = "detect_public_ip" =>
            /\ call.ret \notin {"", WS}
            /\ call.ret # None =>
                   \E i \in DOMAIN probes :
                       /\ probes[i].st = "yielded"
                       /\ probes[i].ip = call.ret
                       /\ call.ret = AddrOf(probes[i].url))
    /\ [][\A i \in (DOMAIN probes) \cap (DOMAIN probes') :
              (/\ call.op = "detect_public_ip"
               /\ probes[i].st = "finished"
               /\ probes'[i].st = "yielded"
               /\ probes'[i].ip = "")
                  => (dpc' = "as_completed" /\ call' = call)]_vars

\* a probe with an empty body was read, and a probe read after it gave the
\* address the call returned
C37_Witness ==
    /\ dpc = "done"
    /\ call.op = "detect_public_ip"
    /\ call.ret \notin {None, ""}
    /\ \E i \in DOMAIN probes : probes[i].st = "yielded" /\ probes[i].ip = ""
    /\ \A i \in DOMAIN probes :
           probes[i].st = "yielded" => probes[i].ip # None

\* every probe had an empty body and the call returned None
C37_WitnessAllEmpty ==
    /\ dpc = "done"
    /\ call.op = "detect_public_ip"
    /\ call.exit = "all_failed"
    /\ call.ret = None
    /\ Len(probes) > 1
    /\ \A i \in DOMAIN probes : probes[i].ip = ""

\* C38: the cache holds one record per hostname, and for every family hint a
\* resolve or resolve_all of h that finds a record of h not older than the
\* TTL returns that record's address, whatever family the address is of,
\* and makes no getaddrinfo call.
C38_HitForEveryFamily ==
    /\ \A i, j \in DOMAIN cache :
           cache[i].hostname = cache[j].hostname => i = j
    /\ \A fam \in Families :
           (/\ rcall.op \in {"resolve", "resolve_all"}
            /\ rcall.family = fam
            /\ tasks[1].pc = "done"
            /\ tasks[1].age # -1
            /\ tasks[1].age <= tasks[1].ttl)
               => /\ tasks[1].how = "hit"
                  /\ tasks[1].lookups = 0
                  /\ tasks[1].ret = tasks[1].cachedIp
                  /\ tasks[1].list = <<tasks[1].cachedIp>>
                  /\ tasks[1].exc = None

\* resolve(h, AF_INET) answered from the cache with an IPv6 address, which
\* only a lookup made with another hint can have stored
C38_Witness ==
    /\ rcall.op = "resolve"
    /\ rpc = "done"
    /\ rcall.family = "AF_INET"
    /\ tasks[1].how = "hit"
    /\ tasks[1].lookups = 0
    /\ rcall.ret = V6(rcall.hosts[1])

\* resolve_all(h, AF_INET6) answered from the cache with an IPv4 address
C38_WitnessAll ==
    /\ rcall.op = "resolve_all"
    /\ rpc = "done"
    /\ rcall.family = "AF_INET6"
    /\ tasks[1].how = "hit"
    /\ rcall.list = <<V4(rcall.hosts[1])>>

\* the records the cache c holds for hostname h
C39_RecordsOf(c, h) == {i \in DOMAIN c : c[i].hostname = h}

\* C39: the cache never holds two records of one hostname, and every resolve
\* whose lookup gave an address leaves, in the step in which it stores it,
\* one record of its hostname with that address, whatever another resolve
\* of the same hostname stored before: when several have finished, the
\* record is that of the one that stored last.
C39_LastStoreWins ==
    /\ [](\A h \in Hostnames : Cardinality(C39_RecordsOf(cache, h)) <= 1)
    /\ [][\A t \in (DOMAIN tasks) \cap (DOMAIN tasks') :
              (/\ rpc = "batch"
               /\ tasks[t].pc = "lookup"
               /\ tasks'[t].pc = "done"
               /\ tasks'[t].ret \notin {None, ""})
                  => /\ Cardinality(C39_RecordsOf(cache', tasks[t].host)) = 1
                     /\ \A i \in C39_RecordsOf(cache', tasks[t].host) :
                            /\ cache'[i].ip_address = tasks'[t].ret
                            /\ cache'[i].timestamp = now]_vars

\* two resolves of one hostname in one batch both missed, both called
\* getaddrinfo and got different addresses, and the cache holds one record
\* of the hostname
C39_Witness ==
    /\ BatchReturned
    /\ \E t, u \in DOMAIN tasks :
           /\ t # u
           /\ tasks[t].host = tasks[u].host
           /\ tasks[t].age = -1 /\ tasks[u].age = -1
           /\ tasks[t].lookups = 1 /\ tasks[u].lookups = 1
           /\ tasks[t].ret \notin {None, ""}
           /\ tasks[u].ret \notin {None, "", tasks[t].ret}
           /\ Cardinality(C39_RecordsOf(cache, tasks[t].host)) = 1

\* C40: a refresh_services that comes right after a save_services_to_config
\* leaves the registry with the services it had: the same names, each with
\* the same url, timeout and enabled flag.
C40_SaveThenRefreshIsRoundTrip ==
    [][(obs.op = "save_services_to_config" /\ obs'.op = "refresh_services")
          => {services'[i] : i \in DOMAIN services'}
                 = {services[i] : i \in DOMAIN services}]_vars

=============================================================================
